---------------------------- MODULE Spec2Model ----------------------------
(***************************************************************************)
(* Legal Guardian: the session lifecycle manager (SessionManager with its  *)
(* SessionStorage collaborator) and the real-time advisory controller      *)
(* (RealTimeLegalAI with SpeechRecognitionService).                        *)
(*                                                                         *)
(* JavaScript runs one callback at a time; an async function runs          *)
(* synchronously up to its next await.  Every action below is one such     *)
(* run: from a call, a timer or the completion of a storage request up to  *)
(* the next suspension point.                                              *)
(***************************************************************************)
EXTENDS Integers, Sequences, FiniteSets, TLC

VARIABLES
    now,                 \* Date.now()
    sessions,            \* SessionManager.sessions, most recent first
    currentSession,      \* SessionManager.currentSession: <<>> is null, <<s>> a session
    recordingStartTime,  \* SessionManager.recordingStartTime
    stored,              \* AsyncStorage item 'legal_guardian_real_sessions'
    placeholders,        \* storage item 'legal_guardian_sessions'
    tasks,               \* the calls in flight and the pipelines scheduled
    nextRef,             \* object identities handed out so far
    history,             \* the public methods called so far, in call order
    notification,        \* what this step passed to the listeners, if it notified
    listeners,           \* SessionManager.listeners, in registration order
    invoked,             \* the listeners this step called, in call order
    setItemThrows,       \* AsyncStorage.setItem fails (the device's storage is full)
    returned,            \* what this step returned to a caller, if it returned
    isInitialized,       \* SessionManager.isInitialized
    loaded,              \* how many times loadSessionsFromStorage assigned this.sessions
    seeded               \* how many times initializeMockData assigned this.sessions

initVars == <<isInitialized, loaded, seeded>>

smVars == <<now, sessions, currentSession, recordingStartTime, stored,
            placeholders, tasks, nextRef, history, notification,
            listeners, invoked, setItemThrows, returned, initVars>>

VARIABLES
    isRecording,         \* RealTimeLegalAI: the isRecording prop
    isListening,         \* RealTimeLegalAI: isListening state
    currentTip,          \* RealTimeLegalAI: currentTip state: <<>> is null, <<id>> a tip
    tipHistory,          \* RealTimeLegalAI: tipHistory state (tip ids)
    tipTimeoutRef,       \* RealTimeLegalAI: tipTimeoutRef.current: 0 is null, else a timer id
    timers,              \* the dismissal timers set and neither cleared nor fired
    cleanupIsListening,  \* isListening as seen by the cleanup the last effect returned
    platform,            \* Platform.OS
    serviceIsListening,  \* SpeechRecognitionService.isListening
    options,             \* SpeechRecognitionService.options: <<>> is null
    simulationInterval,  \* SpeechRecognitionService.simulationInterval: 0 is null
    intervals,           \* the intervals set and not cleared
    recognitionInstance, \* SpeechRecognitionService.recognitionInstance: 0 is null
    recognizers,         \* the web recognizers started and not stopped
    nativeActive,        \* the native recognizer is started and not stopped
    starting,            \* the calls of service.startListening in flight
    delivered,           \* the tip this step's onSpeechResult call detected, if any
    speakTips,           \* RealTimeLegalAI: the speakTips prop
    narration,           \* what speakTip did in this step: "none", "spoken", "failed"
    tipDetected,         \* the tip ids this step passed to onTipDetected, in call order
    resolved,            \* what a call of service.startListening resolved to in this step
    fired,               \* the timer whose callback this step ran, if any
    mounted              \* RealTimeLegalAI is mounted

advVars == <<isRecording, isListening, currentTip, tipHistory, tipTimeoutRef,
             timers, cleanupIsListening, platform, serviceIsListening, options,
             simulationInterval, intervals, recognitionInstance, recognizers,
             nativeActive, starting, delivered, fired, speakTips, narration,
             tipDetected, resolved, mounted>>

VARIABLES
    call,                \* a call of a pure function: <<>>, or <<[fn, arg]>>
    result               \* what that call returned: <<>> until it has returned

fnVars == <<call, result>>

vars == <<smVars, advVars, fnVars>>

(***************************************************************************)
(* Bounds of the model.                                                    *)
(***************************************************************************)
MaxCalls == 3        \* calls of the manager's public methods
MaxSaves == 1        \* of which calls of saveSession
MaxClock == 2        \* clock values explored: 1 .. MaxClock
MaxDetections == 4   \* tips recorded in tipHistory during one listening period
MaxInFlight == 2     \* calls of service.startListening in flight at once
MaxIntervals == 2    \* simulation intervals alive at once
MaxRecognizers == 2  \* web recognizers alive at once
MaxUtterances == 2   \* phrases in a row in one transcript

None == <<>>
Some(x) == <<x>>

(***************************************************************************)
(* Strings.                                                                *)
(***************************************************************************)
RECURSIVE padStart(_, _, _)
padStart(s, n, c) == IF Len(s) >= n THEN s ELSE padStart(c \o s, n, c)

formatDuration(seconds) ==
    LET mins == seconds \div 60
        secs == seconds % 60
    IN  ToString(mins) \o ":" \o padStart(ToString(secs), 2, "0")

SessionId(t) == "session_" \o ToString(t)


(***************************************************************************)
(* Session records.  A field the code leaves undefined is "" (strings),    *)
(* <<>> (objects).  ref is the identity of the JavaScript object: objects  *)
(* made by startSession get a fresh positive ref, because the very same    *)
(* object is both this.currentSession and an element of this.sessions;     *)
(* copies, and objects that are never the current session, have ref 0.     *)
(* Fields no modelled operation reads (date, time, audioUrl, location, the  *)
(* lists of an analysis) are left out, and the texts of the two            *)
(* demonstration sessions are cut to their first sentence.                 *)
(***************************************************************************)
NoSteps == None
Steps(r, t, a) == Some([recording |-> r, transcription |-> t, analysis |-> a])

MockSession1 ==
    [id |-> "1", createdAt |-> 0 - 86400000, duration |-> "2:34",
     snippet |-> "Police stop interaction - ID verification request.",
     status |-> "Complete", quality |-> "Excellent",
     transcript |-> "Officer: Can I see your ID?",
     aiAnalysis |-> Some([summary |-> "This was a police stop regarding ID verification.",
                          situationType |-> "Police Stop", riskLevel |-> "medium",
                          confidence |-> 92, requiresLegalAttention |-> FALSE,
                          urgencyLevel |-> "normal"]),
     processingSteps |-> Steps(TRUE, TRUE, TRUE),
     isRealSession |-> FALSE, ref |-> 0]

MockSession2 ==
    [id |-> "2", createdAt |-> 0 - 259200000, duration |-> "4:12",
     snippet |-> "Traffic stop documentation - Speeding citation.",
     status |-> "Complete", quality |-> "Good",
     transcript |-> "Officer: Do you know why I pulled you over?",
     aiAnalysis |-> Some([summary |-> "Traffic stop for speeding violation.",
                          situationType |-> "Traffic Stop", riskLevel |-> "low",
                          confidence |-> 88, requiresLegalAttention |-> FALSE,
                          urgencyLevel |-> "normal"]),
     processingSteps |-> Steps(TRUE, TRUE, TRUE),
     isRealSession |-> FALSE, ref |-> 0]

initializeMockData == <<MockSession1, MockSession2>>

(***************************************************************************)
(* Array helpers (1-based; index 0 stands for JavaScript's -1).            *)
(***************************************************************************)
unshift(arr, x) == <<x>> \o arr

findIndex(arr, sessionId) ==
    IF \E k \in DOMAIN arr : arr[k].id = sessionId
    THEN CHOOSE k \in DOMAIN arr :
            /\ arr[k].id = sessionId
            /\ \A j \in 1..(k - 1) : arr[j].id # sessionId
    ELSE 0

splice(arr, index) ==
    IF index \in DOMAIN arr
    THEN SubSeq(arr, 1, index - 1) \o SubSeq(arr, index + 1, Len(arr))
    ELSE arr

Merge(session, updates) ==
    [f \in DOMAIN session |-> IF f \in DOMAIN updates THEN updates[f] ELSE session[f]]

\* JSON.stringify / JSON.parse of a session: a copy, no longer the same object
Serialized(session) == [session EXCEPT !.ref = 0]

IsReal(s) == s.isRealSession
IsPlaceholder(s) == ~s.isRealSession

(***************************************************************************)
(* generateMockTranscript: the seven transcripts, one of which             *)
(* Math.random() picks.                                                    *)
(***************************************************************************)
Transcript1 ==
    "User: Hello, I want to make it clear that I am recording thi" \o
    "s interaction for legal protection purposes. Officer: That's" \o
    " fine. Can I see your identification? User: Am I being detai" \o
    "ned or am I free to go? Officer: This is just a routine chec" \o
    "k. User: I understand, but I need to know my legal status. O" \o
    "fficer: You're not being detained. User: Thank you for clari" \o
    "fying. Here is my identification."

Transcript2 ==
    "Supervisor: We need to discuss your overtime hours. User: I'" \o
    "d like to record this conversation for accuracy. Supervisor:" \o
    " Fine. You've been working too much overtime. User: Can you " \o
    "clarify the company policy on overtime limits? Supervisor: T" \o
    "he policy has changed. User: Could I get that policy change " \o
    "in writing? Supervisor: I'll send it to you."

Transcript3 ==
    "Store Manager: You can't return this item without a receipt." \o
    " User: I'm recording this conversation. I purchased this yes" \o
    "terday and have the credit card statement. Manager: Store po" \o
    "licy requires a receipt. User: Can you check your system wit" \o
    "h my credit card? Manager: Let me see what I can do. User: I" \o
    " appreciate your help. What's your name for my records?"

Transcript4 ==
    "Landlord: You're behind on rent. User: I want to record this" \o
    " discussion. I paid on time according to my lease. Landlord:" \o
    " The payment was late. User: My lease says rent is due by th" \o
    "e 5th, and I paid on the 3rd. Landlord: Let me check my reco" \o
    "rds. User: I have my bank statement showing the payment date" \o
    "."

Transcript5 ==
    "Insurance Agent: We're denying your claim. User: I'm recordi" \o
    "ng this call. Can you explain why? Agent: The damage isn't c" \o
    "overed under your policy. User: Which specific clause exclud" \o
    "es this damage? Agent: I'll need to review the policy detail" \o
    "s. User: Please provide that information in writing."

Transcript6 ==
    "Officer: Step out of the vehicle. User: Why am I being order" \o
    "ed to exit? Officer: I need to search the car. User: I do no" \o
    "t consent to any searches. Officer: We have probable cause. " \o
    "User: I want to speak to a lawyer. Officer: You're under arr" \o
    "est."

Transcript7 ==
    "ICE Agent: Are you a US citizen? User: I choose to remain si" \o
    "lent about my immigration status. Agent: Show me your green " \o
    "card. User: I want to speak to an immigration lawyer. Agent:" \o
    " Open the door, we need to come in. User: I do not consent t" \o
    "o entry without a judicial warrant."

transcripts ==
    <<Transcript1, Transcript2, Transcript3, Transcript4, Transcript5, Transcript6, Transcript7>>

(***************************************************************************)
(* generateMockAnalysis: the four scenario templates, scenarios[0..3] of   *)
(* the code (their lists of tips are fixed text and are left out).         *)
(***************************************************************************)
ScenarioPolice ==
    [summary |->
        "Police interaction regarding routine questioning. You demons" \o
        "trated good knowledge of your rights and maintained professi" \o
        "onal communication throughout the encounter.",
     situationType |-> "Police Stop", riskLevel |-> "medium",
     requiresLegalAttention |-> FALSE, urgencyLevel |-> ""]

ScenarioWorkplace ==
    [summary |->
        "Workplace incident involving policy discussion with supervis" \o
        "or. You maintained professionalism and properly documented t" \o
        "he conversation.",
     situationType |-> "Workplace Dispute", riskLevel |-> "medium",
     requiresLegalAttention |-> TRUE, urgencyLevel |-> "normal"]

ScenarioConsumer ==
    [summary |->
        "Consumer rights issue with store management. You effectively" \o
        " challenged the policy and sought reasonable resolution.",
     situationType |-> "Consumer Rights", riskLevel |-> "low",
     requiresLegalAttention |-> FALSE, urgencyLevel |-> ""]

ScenarioIce ==
    [summary |->
        "ICE encounter involving immigration status questions and pot" \o
        "ential detention threats. Critical situation requiring immed" \o
        "iate legal intervention.",
     situationType |-> "ICE Encounter", riskLevel |-> "high",
     requiresLegalAttention |-> TRUE, urgencyLevel |-> "critical"]

(***************************************************************************)
(* String.prototype.toLowerCase and String.prototype.includes.             *)
(***************************************************************************)
LowerOf(c) ==
    CASE c = "A" -> "a" [] c = "B" -> "b" [] c = "C" -> "c" [] c = "D" -> "d"
      [] c = "E" -> "e" [] c = "F" -> "f" [] c = "G" -> "g" [] c = "H" -> "h"
      [] c = "I" -> "i" [] c = "J" -> "j" [] c = "K" -> "k" [] c = "L" -> "l"
      [] c = "M" -> "m" [] c = "N" -> "n" [] c = "O" -> "o" [] c = "P" -> "p"
      [] c = "Q" -> "q" [] c = "R" -> "r" [] c = "S" -> "s" [] c = "T" -> "t"
      [] c = "U" -> "u" [] c = "V" -> "v" [] c = "W" -> "w" [] c = "X" -> "x"
      [] c = "Y" -> "y" [] c = "Z" -> "z" [] OTHER -> c

RECURSIVE toLowerCase(_)
toLowerCase(s) ==
    IF Len(s) = 0 THEN ""
    ELSE IF Len(s) = 1 THEN LowerOf(s)
    ELSE LET h == Len(s) \div 2
         IN  toLowerCase(SubSeq(s, 1, h)) \o toLowerCase(SubSeq(s, h + 1, Len(s)))

includes(s, sub) ==
    \E k \in 1..(Len(s) - Len(sub) + 1) : SubSeq(s, k, k + Len(sub) - 1) = sub

(***************************************************************************)
(* generateMockAnalysis: the scenario is chosen by keywords of the         *)
(* lowercased transcript; confidence is always 0.9 (in hundredths: 90).    *)
(***************************************************************************)
\* selectedScenario with the immigration keywords checked first
selectedScenario_iceFirst(transcript) ==
    LET lowerTranscript == toLowerCase(transcript)
    IN  IF \/ includes(lowerTranscript, "ice")
           \/ includes(lowerTranscript, "immigration")
           \/ includes(lowerTranscript, "citizen")
        THEN ScenarioIce
        ELSE IF \/ includes(lowerTranscript, "arrest")
                \/ includes(lowerTranscript, "search")
                \/ includes(lowerTranscript, "probable cause")
        THEN ScenarioPolice
        ELSE IF \/ includes(lowerTranscript, "workplace")
                \/ includes(lowerTranscript, "supervisor")
                \/ includes(lowerTranscript, "overtime")
        THEN ScenarioWorkplace
        ELSE IF \/ includes(lowerTranscript, "store")
                \/ includes(lowerTranscript, "return")
                \/ includes(lowerTranscript, "receipt")
        THEN ScenarioConsumer
        ELSE ScenarioPolice

selectedScenario(transcript) ==
    LET lowerTranscript == toLowerCase(transcript)
    IN  IF \/ includes(lowerTranscript, "arrest")
           \/ includes(lowerTranscript, "search")
           \/ includes(lowerTranscript, "probable cause")
        THEN ScenarioPolice
        ELSE IF \/ includes(lowerTranscript, "ice")
                \/ includes(lowerTranscript, "immigration")
                \/ includes(lowerTranscript, "citizen")
        THEN ScenarioIce
        ELSE IF \/ includes(lowerTranscript, "workplace")
                \/ includes(lowerTranscript, "supervisor")
                \/ includes(lowerTranscript, "overtime")
        THEN ScenarioWorkplace
        ELSE IF \/ includes(lowerTranscript, "store")
                \/ includes(lowerTranscript, "return")
                \/ includes(lowerTranscript, "receipt")
        THEN ScenarioConsumer
        ELSE ScenarioPolice

generateMockAnalysis(transcript) ==
    LET sc == selectedScenario(transcript)
    IN  [summary |-> sc.summary, situationType |-> sc.situationType,
         riskLevel |-> sc.riskLevel, confidence |-> 90,
         requiresLegalAttention |-> sc.requiresLegalAttention,
         urgencyLevel |-> sc.urgencyLevel]

\* the analysis of each of the seven transcripts, computed once
mockAnalyses == [k \in DOMAIN transcripts |-> generateMockAnalysis(transcripts[k])]

\* determineQuality with the threshold of Fair at 0.5
determineQuality_fairFrom50(confidence) ==
    IF confidence >= 90 THEN "Excellent"
    ELSE IF confidence >= 80 THEN "Good"
    ELSE IF confidence >= 50 THEN "Fair"
    ELSE "Poor"

\* determineQuality with the first threshold exclusive
determineQuality_exclusive(confidence) ==
    IF confidence > 90 THEN "Excellent"
    ELSE IF confidence >= 80 THEN "Good"
    ELSE IF confidence >= 60 THEN "Fair"
    ELSE "Poor"

\* confidence in hundredths
determineQuality(confidence) ==
    IF confidence >= 90 THEN "Excellent"
    ELSE IF confidence >= 80 THEN "Good"
    ELSE IF confidence >= 60 THEN "Fair"
    ELSE "Poor"


(***************************************************************************)
(* Calls in flight and scheduled work.  A call that has returned leaves    *)
(* the list; a pipeline stays, with pc "done", once it has run.            *)
(***************************************************************************)
Returned(kind, sid, tag, val) ==
    Some([kind |-> kind, sid |-> sid, tag |-> tag, val |-> val])

NewTask(kind, pc) ==
    [kind |-> kind, pc |-> pc, sid |-> "", arg |-> None, buf |-> <<>>,
     idx |-> 0, dur |-> 0, tr |-> 0, stage |-> 0, failed |-> FALSE]

\* AsyncStorage.setItem: the item holds the new value, or, when the write
\* throws, the old one; every caller catches the error and logs it
setItem(item, value) == IF setItemThrows THEN item ELSE value

NumSaves == Cardinality({k \in DOMAIN history : history[k] = "saveSession"})
CanCall == Len(history) < MaxCalls
CanSave == CanCall /\ NumSaves < MaxSaves

\* notifyListeners: every registered listener, in registration order, is
\* called with a copy of the collection.
notifyListeners(collection) ==
    /\ notification' = Some(collection)
    /\ invoked' = listeners

\* a step that does not reach notifyListeners
Silent == notification' = None /\ invoked' = <<>>

(***************************************************************************)
(* SessionManager.startSession: synchronous.  The id is derived from the   *)
(* clock alone.  The code has no check of this.currentSession.             *)
(***************************************************************************)
NewCurrentSession(t, r) ==
    [id |-> SessionId(t), createdAt |-> t, duration |-> "00:00",
     snippet |-> "Recording in progress...", status |-> "Processing",
     quality |-> "Good", transcript |-> "", aiAnalysis |-> None,
     processingSteps |-> NoSteps, isRealSession |-> TRUE, ref |-> r]

StartSessionEffect(t, r) ==
    /\ currentSession' = Some(NewCurrentSession(t, r))
    /\ recordingStartTime' = t

StartSession ==
    /\ CanCall
    /\ StartSessionEffect(now, nextRef + 1)
    /\ nextRef' = nextRef + 1
    /\ history' = Append(history, "startSession")
    /\ returned' = Returned("startSession", SessionId(now), "session", currentSession')
    /\ Silent
    /\ UNCHANGED <<advVars, fnVars, initVars, setItemThrows, listeners, now, sessions, stored, placeholders, tasks>>

(***************************************************************************)
(* SessionManager.endSession, up to the await of the storage request.      *)
(* The object pushed on this.sessions is this.currentSession itself, so    *)
(* the assignments to its fields show in every place that holds it.        *)
(***************************************************************************)
EndedFields(cs, t) ==
    [cs EXCEPT !.duration = formatDuration((t - recordingStartTime) \div 1000),
               !.snippet = "Processing session analysis...",
               !.status = "Processing"]

SameObject(x, cs) == x.ref # 0 /\ x.ref = cs.ref

EndSessionSync(cs, t) ==
    LET ended == EndedFields(cs, t)
        shown == [k \in DOMAIN sessions |->
                    IF SameObject(sessions[k], cs) THEN ended ELSE sessions[k]]
        held == [k \in DOMAIN tasks |->
                    IF tasks[k].arg # None /\ SameObject(tasks[k].arg[1], cs)
                    THEN [tasks[k] EXCEPT !.arg = Some(ended)] ELSE tasks[k]]
    IN  /\ currentSession' = Some(ended)
        /\ sessions' = unshift(shown, ended)
        /\ tasks' = Append(held, [NewTask("endSession", "save_read") EXCEPT
                                    !.sid = cs.id, !.arg = Some(ended)])

\* endSession that notifies the listeners also when no session is active
EndSessionCall_notifiesOnNull ==
    /\ CanCall
    /\ history' = Append(history, "endSession")
    /\ IF currentSession = None
       THEN /\ returned' = Returned("endSession", "", "null", None)
            /\ notifyListeners(sessions)
            /\ UNCHANGED <<sessions, currentSession, tasks>>
       ELSE /\ EndSessionSync(currentSession[1], now)
            /\ Silent
            /\ returned' = None
    /\ UNCHANGED <<advVars, fnVars, initVars, setItemThrows, listeners, now, recordingStartTime, stored, placeholders, nextRef>>

EndSessionCall ==
    /\ CanCall
    /\ history' = Append(history, "endSession")
    /\ Silent
    /\ IF currentSession = None
       THEN /\ returned' = Returned("endSession", "", "null", None)
            /\ UNCHANGED <<sessions, currentSession, tasks>>
       ELSE /\ EndSessionSync(currentSession[1], now)
            /\ returned' = None
    /\ UNCHANGED <<advVars, fnVars, initVars, setItemThrows, listeners, now, recordingStartTime, stored, placeholders, nextRef>>

(***************************************************************************)
(* SessionStorage.saveSession: getSessions() resolves with the stored      *)
(* list, the session is put in front and setItem is issued with the        *)
(* serialized list.                                                        *)
(***************************************************************************)
StorageSaveBuffer(session, list) == unshift(list, Serialized(session))

StorageSaveRead(i) ==
    /\ tasks[i].pc = "save_read"
    /\ tasks' = [tasks EXCEPT ![i].pc = "save_write",
                              ![i].buf = StorageSaveBuffer(tasks[i].arg[1], stored)]
    /\ Silent
    /\ returned' = None
    /\ UNCHANGED <<advVars, fnVars, initVars, setItemThrows, listeners, now, sessions, currentSession, recordingStartTime, stored,
                   placeholders, nextRef, history>>

(***************************************************************************)
(* endSession after the await: setItem has taken effect; notify, take the  *)
(* snapshot of whatever this.currentSession is now, clear the slot.        *)
(***************************************************************************)
EndSessionSnapshot(i, cs) ==
    IF cs = None
    THEN Returned("endSession", tasks[i].sid, "empty", None)
    ELSE Returned("endSession", tasks[i].sid, "session", Some(Serialized(cs[1])))

EndSessionResume(i) ==
    /\ tasks[i].kind = "endSession"
    /\ tasks[i].pc = "save_write"
    /\ stored' = setItem(stored, tasks[i].buf)
    /\ notifyListeners(sessions)
    /\ returned' = EndSessionSnapshot(i, currentSession)
    /\ tasks' = splice(tasks, i)
    /\ currentSession' = None
    /\ recordingStartTime' = 0
    /\ UNCHANGED <<advVars, fnVars, initVars, setItemThrows, listeners, now, sessions, placeholders, nextRef, history>>

Tick ==
    /\ now < MaxClock
    /\ now' = now + 1
    /\ Silent
    /\ returned' = None
    /\ UNCHANGED <<advVars, fnVars, initVars, setItemThrows, listeners, sessions, currentSession, recordingStartTime, stored,
                   placeholders, tasks, nextRef, history>>

(***************************************************************************)
(* SessionManager.saveSession, up to the await of the storage request.     *)
(***************************************************************************)
Durations == {154, 65}     \* the durations the recording screen may pass

NewSession(t, duration) ==
    [id |-> SessionId(t), createdAt |-> t, duration |-> formatDuration(duration),
     snippet |-> "Processing session analysis...", status |-> "Processing",
     quality |-> "Good", transcript |-> "", aiAnalysis |-> None,
     processingSteps |-> Steps(TRUE, FALSE, FALSE),
     isRealSession |-> TRUE, ref |-> 0]

SaveSessionCall(duration) ==
    /\ CanSave
    /\ history' = Append(history, "saveSession")
    /\ sessions' = unshift(sessions, NewSession(now, duration))
    /\ tasks' = Append(tasks, [NewTask("saveSession", "save_read") EXCEPT
                                 !.sid = SessionId(now),
                                 !.dur = duration,
                                 !.arg = Some(NewSession(now, duration))])
    /\ Silent
    /\ returned' = None
    /\ UNCHANGED <<advVars, fnVars, initVars, setItemThrows, listeners, now, currentSession, recordingStartTime, stored, placeholders,
                   nextRef>>

(***************************************************************************)
(* saveSession after the await: notify, schedule the background pipeline   *)
(* with setTimeout(..., 3000) and return the new session.                  *)
(***************************************************************************)
SaveSessionResume(i) ==
    /\ tasks[i].kind = "saveSession"
    /\ tasks[i].pc = "save_write"
    /\ stored' = setItem(stored, tasks[i].buf)
    /\ notifyListeners(sessions)
    /\ returned' = Returned("saveSession", tasks[i].sid, "session", tasks[i].arg)
    /\ tasks' = Append(splice(tasks, i),
                       [NewTask("pipeline", "t3000") EXCEPT
                          !.sid = tasks[i].sid, !.dur = tasks[i].dur])
    /\ UNCHANGED <<advVars, fnVars, initVars, setItemThrows, listeners, now, sessions, currentSession, recordingStartTime,
                   placeholders, nextRef, history>>

(***************************************************************************)
(* The background pipeline.  stage 1: the transcript update; stage 2: the  *)
(* completing update; stage 3: the update of the catch clause.  k is the   *)
(* index of the transcript that was picked.                                *)
(***************************************************************************)
\* Updates whose catch clause leaves the status as it is
Updates_catchKeepsStatus(stage, k) ==
    IF stage = 1
    THEN [transcript |-> transcripts[k],
          processingSteps |-> Steps(TRUE, TRUE, FALSE)]
    ELSE IF stage = 2
    THEN [snippet |-> mockAnalyses[k].summary,
          status |-> "Complete",
          quality |-> determineQuality(mockAnalyses[k].confidence),
          aiAnalysis |-> Some(mockAnalyses[k]),
          processingSteps |-> Steps(TRUE, TRUE, TRUE)]
    ELSE [snippet |-> "Analysis failed. Please try again.",
          quality |-> "Poor"]

Updates(stage, k) ==
    IF stage = 1
    THEN [transcript |-> transcripts[k],
          processingSteps |-> Steps(TRUE, TRUE, FALSE)]
    ELSE IF stage = 2
    THEN [snippet |-> mockAnalyses[k].summary,
          status |-> "Complete",
          quality |-> determineQuality(mockAnalyses[k].confidence),
          aiAnalysis |-> Some(mockAnalyses[k]),
          processingSteps |-> Steps(TRUE, TRUE, TRUE)]
    ELSE [snippet |-> "Analysis failed. Please try again.",
          status |-> "Failed",
          quality |-> "Poor"]

\* where the pipeline goes once updateSessionProgress has returned
AfterUpdate(t) ==
    IF t.stage = 1 THEN [t EXCEPT !.pc = "t2500", !.buf = <<>>]
    ELSE IF t.stage = 2 THEN [t EXCEPT !.pc = "done", !.buf = <<>>]
    ELSE [t EXCEPT !.pc = "done", !.buf = <<>>, !.failed = TRUE]

\* updateSessionProgress up to its await: the in-memory element is replaced
\* by a merged copy, then the storage request is issued
updateSessionProgress(i, stage, k) ==
    LET t == [tasks[i] EXCEPT !.stage = stage, !.tr = k, !.buf = <<>>]
        index == findIndex(sessions, t.sid)
        merged == [Merge(sessions[index], Updates(stage, k)) EXCEPT !.ref = 0]
        updated == [sessions EXCEPT ![index] = merged]
    IN  IF index = 0
        THEN /\ sessions' = sessions
             /\ tasks' = [tasks EXCEPT ![i] = AfterUpdate(t)]
        ELSE /\ sessions' = updated
             /\ tasks' = [tasks EXCEPT ![i] =
                    IF sessions[index].isRealSession
                    THEN [t EXCEPT !.pc = "upd_read"]
                    ELSE [t EXCEPT !.pc = "upd_pwrite",
                                   !.buf = SelectSeq(updated, IsPlaceholder)]]

\* the 3000 ms timer fires: generateMockTranscript starts its 1000 ms timer
PipelineStart(i) ==
    /\ tasks[i].kind = "pipeline"
    /\ tasks[i].pc = "t3000"
    /\ tasks' = [tasks EXCEPT ![i].pc = "t1000"]
    /\ Silent
    /\ returned' = None
    /\ UNCHANGED <<advVars, fnVars, initVars, setItemThrows, listeners, now, sessions, currentSession, recordingStartTime, stored,
                   placeholders, nextRef, history>>

\* the 1000 ms timer fires: a transcript is picked, or the step throws
PipelineTranscript(i) ==
    /\ tasks[i].kind = "pipeline"
    /\ tasks[i].pc = "t1000"
    /\ \/ \E k \in DOMAIN transcripts : updateSessionProgress(i, 1, k)
       \/ updateSessionProgress(i, 3, tasks[i].tr)
    /\ Silent
    /\ returned' = None
    /\ UNCHANGED <<advVars, fnVars, initVars, setItemThrows, listeners, now, currentSession, recordingStartTime, stored,
                   placeholders, nextRef, history>>

\* the 2500 ms delay of generateMockAnalysis ends: complete, or the step throws
PipelineAnalysis(i) ==
    /\ tasks[i].kind = "pipeline"
    /\ tasks[i].pc = "t2500"
    /\ \/ updateSessionProgress(i, 2, tasks[i].tr)
       \/ updateSessionProgress(i, 3, tasks[i].tr)
    /\ Silent
    /\ returned' = None
    /\ UNCHANGED <<advVars, fnVars, initVars, setItemThrows, listeners, now, currentSession, recordingStartTime, stored,
                   placeholders, nextRef, history>>

\* updateSessionProgress after its await: notify; a throw inside the try
\* block (stages 1 and 2) enters the catch clause
UpdateContinuation(i, throws) ==
    /\ notifyListeners(sessions)
    /\ returned' = None
    /\ IF throws /\ tasks[i].stage # 3
       THEN updateSessionProgress(i, 3, tasks[i].tr)
       ELSE /\ sessions' = sessions
            /\ tasks' = [tasks EXCEPT ![i] = AfterUpdate(tasks[i])]

(***************************************************************************)
(* SessionStorage.updateSession: read, merge into the stored element with  *)
(* that id, write; false when the stored list has no such id.              *)
(***************************************************************************)
StorageUpdateBuffer(list, sessionId, updates) ==
    [list EXCEPT ![findIndex(list, sessionId)] = Merge(@, updates)]

StorageUpdateRead(i) ==
    /\ tasks[i].pc = "upd_read"
    /\ IF findIndex(stored, tasks[i].sid) = 0
       THEN \E throws \in BOOLEAN : UpdateContinuation(i, throws)
       ELSE /\ tasks' = [tasks EXCEPT
                 ![i].pc = "upd_write",
                 ![i].buf = StorageUpdateBuffer(stored, tasks[i].sid,
                                Updates(tasks[i].stage, tasks[i].tr))]
            /\ Silent
            /\ returned' = None
            /\ UNCHANGED sessions
    /\ UNCHANGED <<advVars, fnVars, initVars, setItemThrows, listeners, now, currentSession, recordingStartTime, stored,
                   placeholders, nextRef, history>>

UpdateResume(i) ==
    /\ tasks[i].pc \in {"upd_write", "upd_pwrite"}
    /\ IF tasks[i].pc = "upd_write"
       THEN stored' = setItem(stored, tasks[i].buf) /\ UNCHANGED placeholders
       ELSE placeholders' = setItem(placeholders, tasks[i].buf) /\ UNCHANGED stored
    /\ \E throws \in BOOLEAN : UpdateContinuation(i, throws)
    /\ UNCHANGED <<advVars, fnVars, initVars, setItemThrows, listeners, now, currentSession, recordingStartTime, nextRef, history>>

(***************************************************************************)
(* SessionManager.deleteSession.  The index found before the await is the  *)
(* index spliced after it.                                                 *)
(***************************************************************************)
DeleteSessionCall(sessionId) ==
    LET index == findIndex(sessions, sessionId)
        t == [NewTask("deleteSession", "del_read") EXCEPT !.sid = sessionId,
                                                          !.idx = index]
    IN  /\ CanCall
        /\ history' = Append(history, "deleteSession")
        /\ Silent
        /\ IF index = 0
           THEN /\ returned' = Returned("deleteSession", sessionId, "false", None)
                /\ UNCHANGED <<sessions, tasks>>
           ELSE IF sessions[index].isRealSession
           THEN /\ tasks' = Append(tasks, t)
                /\ returned' = None
                /\ UNCHANGED sessions
           ELSE /\ sessions' = splice(sessions, index)
                /\ tasks' = Append(tasks,
                        [t EXCEPT !.pc = "del_pwrite",
                                  !.buf = SelectSeq(sessions', IsPlaceholder)])
                /\ returned' = None
        /\ UNCHANGED <<advVars, fnVars, initVars, setItemThrows, listeners, now, currentSession, recordingStartTime, stored,
                       placeholders, nextRef>>

\* deleteSession after the await of SessionStorage.deleteSession
DeleteContinuation(i) ==
    /\ sessions' = splice(sessions, tasks[i].idx)
    /\ notifyListeners(sessions')
    /\ returned' = Returned("deleteSession", tasks[i].sid, "true", None)
    /\ tasks' = splice(tasks, i)

(***************************************************************************)
(* SessionStorage.deleteSession: read, drop every stored element with the  *)
(* id, write; false when the stored list has no such id.                   *)
(***************************************************************************)
StorageDeleteBuffer(list, sessionId) ==
    SelectSeq(list, LAMBDA x : x.id # sessionId)

StorageDeleteRead(i) ==
    /\ tasks[i].pc = "del_read"
    /\ IF findIndex(stored, tasks[i].sid) = 0
       THEN DeleteContinuation(i)
       ELSE /\ tasks' = [tasks EXCEPT
                 ![i].pc = "del_write",
                 ![i].buf = StorageDeleteBuffer(stored, tasks[i].sid)]
            /\ Silent
            /\ returned' = None
            /\ UNCHANGED sessions
    /\ UNCHANGED <<advVars, fnVars, initVars, setItemThrows, listeners, now, currentSession, recordingStartTime, stored,
                   placeholders, nextRef, history>>

DeleteSessionResume(i) ==
    /\ tasks[i].pc \in {"del_write", "del_pwrite"}
    /\ IF tasks[i].pc = "del_write"
       THEN /\ stored' = setItem(stored, tasks[i].buf)
            /\ DeleteContinuation(i)
            /\ UNCHANGED placeholders
       ELSE /\ placeholders' = setItem(placeholders, tasks[i].buf)
            /\ notifyListeners(sessions)
            /\ returned' = Returned("deleteSession", tasks[i].sid, "true", None)
            /\ tasks' = splice(tasks, i)
            /\ UNCHANGED <<sessions, stored>>
    /\ UNCHANGED <<advVars, fnVars, initVars, setItemThrows, listeners, now, currentSession, recordingStartTime, nextRef, history>>

(***************************************************************************)
(* SessionManager.addListener and removeListener: synchronous.  A listener *)
(* pushed twice is held twice; removeListener filters out every copy.      *)
(***************************************************************************)
Listeners == {"handleSessionUpdate", "listener"}

addListener(listener) ==
    /\ CanCall
    /\ listeners' = Append(listeners, listener)
    /\ history' = Append(history, "addListener")
    /\ returned' = None
    /\ Silent
    /\ UNCHANGED <<advVars, fnVars, initVars, setItemThrows, now, sessions, currentSession, recordingStartTime,
                   stored, placeholders, tasks, nextRef>>

removeListener(listener) ==
    /\ CanCall
    /\ listeners' = SelectSeq(listeners, LAMBDA l : l # listener)
    /\ history' = Append(history, "removeListener")
    /\ returned' = None
    /\ Silent
    /\ UNCHANGED <<advVars, fnVars, initVars, setItemThrows, now, sessions, currentSession, recordingStartTime,
                   stored, placeholders, tasks, nextRef>>

(***************************************************************************)
(* SessionManager.clearAllSessions: the real sessions' item is removed,    *)
(* then the placeholders' item is set to the empty list, then the          *)
(* collection is emptied and the listeners are notified.                   *)
(***************************************************************************)
ClearAllSessionsCall ==
    /\ CanCall
    /\ history' = Append(history, "clearAllSessions")
    /\ tasks' = Append(tasks, NewTask("clearAllSessions", "clear_remove"))
    /\ returned' = None
    /\ Silent
    /\ UNCHANGED <<advVars, fnVars, initVars, setItemThrows, listeners, now, sessions, currentSession,
                   recordingStartTime, stored, placeholders, nextRef>>

\* SessionStorage.clearAllSessions: AsyncStorage.removeItem completes
StorageClearAllSessions(i) ==
    /\ tasks[i].pc = "clear_remove"
    /\ stored' = <<>>
    /\ tasks' = [tasks EXCEPT ![i].pc = "clear_set"]
    /\ returned' = None
    /\ Silent
    /\ UNCHANGED <<advVars, fnVars, initVars, setItemThrows, listeners, now, sessions, currentSession,
                   recordingStartTime, placeholders, nextRef, history>>

\* storageUtils.setJSON(storageKey, []) completes; the rest of clearAllSessions
ClearAllSessionsResume(i) ==
    /\ tasks[i].pc = "clear_set"
    /\ placeholders' = <<>>
    /\ sessions' = <<>>
    /\ notifyListeners(sessions')
    /\ returned' = Returned("clearAllSessions", "", "void", None)
    /\ tasks' = splice(tasks, i)
    /\ UNCHANGED <<advVars, fnVars, initVars, setItemThrows, listeners, now, currentSession, recordingStartTime,
                   stored, nextRef, history>>

(***************************************************************************)
(* LegalSpeechAnalyzer.  A tip is its id, the alternatives of its trigger   *)
(* (the trigger string split at "|"), its urgency and its category; the    *)
(* advice text plays no part in the control flow.                          *)
(***************************************************************************)
LEGAL_TIPS == <<
    [id |-> "id_request", urgency |-> "medium", category |-> "documentation",
     trigger |-> <<"license", "identification", "id", "show me your", "can i see your">>],
    [id |-> "search_request", urgency |-> "high", category |-> "search",
     trigger |-> <<"search", "look through", "check your", "mind if i search", "can i search">>],
    [id |-> "step_out", urgency |-> "medium", category |-> "detention",
     trigger |-> <<"step out", "exit the vehicle", "get out of the car", "out of the vehicle">>],
    [id |-> "arrest", urgency |-> "high", category |-> "rights",
     trigger |-> <<"under arrest", "placing you under arrest", "arresting you", "you are under arrest">>],
    [id |-> "why_stopped", urgency |-> "low", category |-> "general",
     trigger |-> <<"know why", "pulled you over", "stopped you", "reason i stopped", "why i pulled">>],
    [id |-> "drinking_drugs", urgency |-> "medium", category |-> "rights",
     trigger |-> <<"drinking", "drugs", "alcohol", "substances", "been using", "have you been">>],
    [id |-> "where_going", urgency |-> "low", category |-> "general",
     trigger |-> <<"where are you going", "where you coming from", "what are you doing", "destination">>],
    [id |-> "hands_behind", urgency |-> "high", category |-> "detention",
     trigger |-> <<"hands behind", "put your hands", "stop resisting", "calm down">>],
    [id |-> "immigration_status", urgency |-> "high", category |-> "immigration",
     trigger |-> <<"citizen", "citizenship", "immigration status", "green card", "papers", "are you legal">>],
    [id |-> "ice_agents", urgency |-> "high", category |-> "immigration",
     trigger |-> <<"ice", "immigration enforcement", "homeland security", "deportation", "removal", "open the door">>],
    [id |-> "consent", urgency |-> "medium", category |-> "rights",
     trigger |-> <<"consent", "permission", "okay if", "mind if", "can we", "may we">>],
    [id |-> "detained", urgency |-> "medium", category |-> "detention",
     trigger |-> <<"detained", "detaining", "hold you", "stay here", "don't leave">>],
    [id |-> "miranda_rights", urgency |-> "high", category |-> "rights",
     trigger |-> <<"right to remain silent", "miranda", "anything you say", "used against you">>],
    [id |-> "recording", urgency |-> "low", category |-> "rights",
     trigger |-> <<"recording", "camera", "phone", "filming", "video">>],
    [id |-> "warrant", urgency |-> "medium", category |-> "documentation",
     trigger |-> <<"warrant", "court order", "judge signed", "search warrant">>],
    [id |-> "user_silence", urgency |-> "low", category |-> "rights",
     trigger |-> <<"i remain silent", "right to remain silent", "fifth amendment", "staying silent">>],
    [id |-> "user_lawyer", urgency |-> "low", category |-> "rights",
     trigger |-> <<"i want a lawyer", "i want an attorney", "lawyer", "attorney", "immigration lawyer">>],
    [id |-> "user_free_to_go", urgency |-> "low", category |-> "detention",
     trigger |-> <<"am i free to go", "am i being detained", "am i under arrest">>],
    [id |-> "user_no_consent", urgency |-> "low", category |-> "search",
     trigger |-> <<"i do not consent", "i don't consent", "no consent to search">>],
    [id |-> "user_recording", urgency |-> "low", category |-> "general",
     trigger |-> <<"recording this", "i am recording", "this is being recorded">>]
    >>

\* the phrases of startSimulation; the recognizers are taken to hear the same
simulatedPhrases == <<
    "Can I see your license and registration?",
    "Do you know why I pulled you over?",
    "Step out of the vehicle please.",
    "Where are you coming from tonight?",
    "Have you had anything to drink?",
    "I'm going to need to search your vehicle.",
    "Put your hands behind your back.",
    "Am I being detained or am I free to go?",
    "Are you a US citizen?",
    "Where were you born?",
    "Show me your immigration papers.",
    "We need to see your green card.",
    "Open the door, we have a warrant.",
    "We're ICE agents, we need to talk to you.",
    "I choose to remain silent.",
    "I do not consent to a search.",
    "I want to speak to an attorney.",
    "Am I free to go?",
    "I'm recording this interaction for my protection.",
    "I don't consent to you entering my home without a judicial warrant."
    >>

RECURSIVE trim(_)
trim(s) ==
    IF Len(s) = 0 THEN s
    ELSE IF SubSeq(s, 1, 1) = " " THEN trim(SubSeq(s, 2, Len(s)))
    ELSE IF SubSeq(s, Len(s), Len(s)) = " " THEN trim(SubSeq(s, 1, Len(s) - 1))
    ELSE s

\* analyzeSpeech that falls back to the general tip when nothing matches
analyzeSpeech_fallbackTip(transcript) ==
    LET lowerTranscript == toLowerCase(transcript)
        matches(tip) == \E k \in DOMAIN tip.trigger :
                            includes(lowerTranscript, toLowerCase(tip.trigger[k]))
        hits == {n \in DOMAIN LEGAL_TIPS : matches(LEGAL_TIPS[n])}
    IN  IF Len(transcript) = 0 \/ Len(trim(transcript)) = 0 THEN None
        ELSE IF hits = {} THEN Some(LEGAL_TIPS[5])
        ELSE Some(LEGAL_TIPS[CHOOSE n \in hits : \A m \in hits : n <= m])

\* analyzeSpeech that returns the last tip in table order that matches
analyzeSpeech_lastDeclared(transcript) ==
    LET lowerTranscript == toLowerCase(transcript)
        matches(tip) == \E k \in DOMAIN tip.trigger :
                            includes(lowerTranscript, toLowerCase(tip.trigger[k]))
        hits == {n \in DOMAIN LEGAL_TIPS : matches(LEGAL_TIPS[n])}
    IN  IF Len(transcript) = 0 \/ Len(trim(transcript)) = 0 THEN None
        ELSE IF hits = {} THEN None
        ELSE Some(LEGAL_TIPS[CHOOSE n \in hits : \A m \in hits : n >= m])

\* the first tip, in table order, one of whose triggers the lowercased
\* transcript includes; <<>> when there is none
analyzeSpeech(transcript) ==
    LET lowerTranscript == toLowerCase(transcript)
        matches(tip) == \E k \in DOMAIN tip.trigger :
                            includes(lowerTranscript, toLowerCase(tip.trigger[k]))
        hits == {n \in DOMAIN LEGAL_TIPS : matches(LEGAL_TIPS[n])}
    IN  IF Len(transcript) = 0 \/ Len(trim(transcript)) = 0 THEN None
        ELSE IF hits = {} THEN None
        ELSE Some(LEGAL_TIPS[CHOOSE n \in hits : \A m \in hits : n <= m])

\* analyzeSpeech of every phrase the model hears
detectedTips == [p \in DOMAIN simulatedPhrases |-> analyzeSpeech(simulatedPhrases[p])]

\* the auto-hide delay of processDetectedSpeech, in ms
hideDelay(urgency) ==
    IF urgency = "high" THEN 12000 ELSE IF urgency = "medium" THEN 10000 ELSE 8000

(***************************************************************************)
(* The advisory controller and the speech service.  Handlers are written   *)
(* as functions of the record a of the variables they may assign, so that  *)
(* one step can run several of them in sequence (an effect runs the        *)
(* previous effect's cleanup and then its own body).                       *)
(*                                                                         *)
(* A function component's handlers are closures of the render that made    *)
(* them: they read the state of that render.  The closure's values are     *)
(* passed to the handler explicitly.                                       *)
(***************************************************************************)
Advisory ==
    [isListening |-> isListening, currentTip |-> currentTip,
     tipHistory |-> tipHistory, tipTimeoutRef |-> tipTimeoutRef,
     timers |-> timers, serviceIsListening |-> serviceIsListening,
     options |-> options, simulationInterval |-> simulationInterval,
     intervals |-> intervals, recognitionInstance |-> recognitionInstance,
     recognizers |-> recognizers, nativeActive |-> nativeActive,
     starting |-> starting, narration |-> "none", tipDetected |-> <<>>,
     ret |-> FALSE, resolved |-> None]

Assign(a) ==
    /\ isListening' = a.isListening
    /\ currentTip' = a.currentTip
    /\ tipHistory' = a.tipHistory
    /\ tipTimeoutRef' = a.tipTimeoutRef
    /\ timers' = a.timers
    /\ serviceIsListening' = a.serviceIsListening
    /\ options' = a.options
    /\ simulationInterval' = a.simulationInterval
    /\ intervals' = a.intervals
    /\ recognitionInstance' = a.recognitionInstance
    /\ recognizers' = a.recognizers
    /\ nativeActive' = a.nativeActive
    /\ starting' = a.starting
    /\ narration' = a.narration
    /\ tipDetected' = a.tipDetected
    /\ resolved' = a.resolved

\* a handle no live or remembered object has
FreshId(used) == CHOOSE n \in 1..(Cardinality(used) + 1) : n \notin used

clearTimeout(a, id) == [a EXCEPT !.timers = {t \in @ : t.id # id}]

\* SpeechRecognitionService.stopListening
serviceStopListening(a) ==
    LET b == IF platform = "web"
             THEN IF a.recognitionInstance # 0
                  THEN [a EXCEPT !.recognizers = {r \in @ : r.id # a.recognitionInstance},
                                 !.recognitionInstance = 0]
                  ELSE a
             ELSE [a EXCEPT !.nativeActive = FALSE]
        c == IF b.simulationInterval # 0
             THEN [b EXCEPT !.intervals = @ \ {b.simulationInterval},
                            !.simulationInterval = 0]
             ELSE b
    IN  [c EXCEPT !.serviceIsListening = FALSE, !.options = None]

\* SpeechRecognitionService.startListening up to its first await; closure is
\* what the handlers passed in the options read
serviceStartListening(a, closure) ==
    IF a.serviceIsListening THEN a
    ELSE [a EXCEPT !.options = Some(closure),
                   !.starting = Append(@, "isAvailable")]

\* startSimulation that only logs and returns false
startSimulation_unstarted(a) == [a EXCEPT !.ret = FALSE]

\* SpeechRecognitionService.startSimulation; ret is the value it returns
startSimulation(a) ==
    LET id == FreshId(a.intervals \cup {a.simulationInterval})
    IN  [a EXCEPT !.serviceIsListening = TRUE,
                  !.simulationInterval = id,
                  !.intervals = @ \cup {id},
                  !.ret = TRUE]

\* stopListening that forgets the pending dismissal timer
stopListening_keepsTimer(a, closureIsListening) ==
    IF ~closureIsListening THEN a
    ELSE serviceStopListening([a EXCEPT !.isListening = FALSE,
                                        !.currentTip = None])

\* RealTimeLegalAI.stopListening, with the isListening its closure reads
stopListening(a, closureIsListening) ==
    IF ~closureIsListening THEN a
    ELSE LET b == serviceStopListening([a EXCEPT !.isListening = FALSE,
                                                 !.currentTip = None])
         IN  IF b.tipTimeoutRef # 0
             THEN [clearTimeout(b, b.tipTimeoutRef) EXCEPT !.tipTimeoutRef = 0]
             ELSE b

\* RealTimeLegalAI.startListening, with the isListening and currentTip its
\* closure reads.  Every path of service.startListening resolves to true, so
\* the fallback to simulatePhaseDetection is never taken.
startListening(a, closureIsListening, closureTip) ==
    IF closureIsListening THEN a
    ELSE serviceStartListening([a EXCEPT !.isListening = TRUE, !.tipHistory = <<>>],
                               [currentTip |-> closureTip, speakTips |-> speakTips])

\* speakTip: the calls of Speech are inside a try block whose catch clause
\* logs the error
speakTip(tip, throws) == IF throws THEN "failed" ELSE "spoken"

\* processDetectedSpeech that does not clear the timer of the previous tip
processDetectedSpeech_keepsTimer(a, p, closure, throws) ==
    LET detectedTip == detectedTips[p]
        id == FreshId({t.id : t \in a.timers} \cup {a.tipTimeoutRef})
    IN  IF detectedTip = None THEN a
        ELSE [a EXCEPT !.tipHistory = Append(@, detectedTip[1].id),
                       !.currentTip = detectedTip,
                       !.narration = IF closure.speakTips
                                     THEN speakTip(detectedTip[1], throws) ELSE "none",
                       !.tipDetected = Append(@, detectedTip[1].id),
                       !.timers = @ \cup {[id |-> id, tip |-> detectedTip[1],
                                           currentTip |-> closure.currentTip,
                                           hideDelay |-> hideDelay(detectedTip[1].urgency)]},
                       !.tipTimeoutRef = id]

\* processDetectedSpeech whose speakTip lets the error of Speech escape: the
\* rest of the handler (onTipDetected, setTimeout) is not run
processDetectedSpeech_uncaught(a, p, closure, throws) ==
    LET detectedTip == detectedTips[p]
        b == IF a.tipTimeoutRef # 0 THEN clearTimeout(a, a.tipTimeoutRef) ELSE a
        id == FreshId({t.id : t \in a.timers} \cup {a.tipTimeoutRef})
    IN  IF detectedTip = None THEN a
        ELSE IF closure.speakTips /\ throws
        THEN [b EXCEPT !.tipHistory = Append(@, detectedTip[1].id),
                       !.currentTip = detectedTip,
                       !.narration = "failed"]
        ELSE [b EXCEPT !.tipHistory = Append(@, detectedTip[1].id),
                       !.currentTip = detectedTip,
                       !.narration = IF closure.speakTips
                                     THEN speakTip(detectedTip[1], throws) ELSE "none",
                       !.tipDetected = Append(@, detectedTip[1].id),
                       !.timers = @ \cup {[id |-> id, tip |-> detectedTip[1],
                                           currentTip |-> closure.currentTip,
                                           hideDelay |-> hideDelay(detectedTip[1].urgency)]},
                       !.tipTimeoutRef = id]

\* RealTimeLegalAI.processDetectedSpeech, with the currentTip and speakTips
\* its closure reads; throws: Speech.stop or Speech.speak throws
processDetectedSpeech(a, p, closure, throws) ==
    LET detectedTip == detectedTips[p]
        b == IF a.tipTimeoutRef # 0 THEN clearTimeout(a, a.tipTimeoutRef) ELSE a
        id == FreshId({t.id : t \in a.timers} \cup {a.tipTimeoutRef})
    IN  IF detectedTip = None THEN a
        ELSE [b EXCEPT !.tipHistory = Append(@, detectedTip[1].id),
                       !.currentTip = detectedTip,
                       !.narration = IF closure.speakTips
                                     THEN speakTip(detectedTip[1], throws) ELSE "none",
                       !.tipDetected = Append(@, detectedTip[1].id),
                       !.timers = @ \cup {[id |-> id, tip |-> detectedTip[1],
                                           currentTip |-> closure.currentTip,
                                           hideDelay |-> hideDelay(detectedTip[1].urgency)]},
                       !.tipTimeoutRef = id]

\* this.options?.onSpeechResult(text)
onSpeechResult(a, p, throws) ==
    IF a.options = None THEN a ELSE processDetectedSpeech(a, p, a.options[1], throws)

\* the bounds on what one step may add
Hears(p) ==
    options # None /\ detectedTips[p] # None => Len(tipHistory) < MaxDetections
CanSimulate == Cardinality(intervals) < MaxIntervals
CanRecognize == Cardinality(recognizers) < MaxRecognizers

(***************************************************************************)
(* The steps of the advisory controller.                                   *)
(***************************************************************************)
Quiet == delivered' = None /\ fired' = 0

\* the parent changes isRecording: the component renders, the cleanup of
\* the previous effect runs (a closure of the render that effect ran in),
\* then the effect body, a closure of this render
SetRecording ==
    LET cleaned == stopListening(Advisory, cleanupIsListening)
    IN  /\ mounted
        /\ ~isRecording => Len(starting) < MaxInFlight
        /\ isRecording' = ~isRecording
        /\ cleanupIsListening' = isListening
        /\ Assign(IF ~isRecording
                  THEN startListening(cleaned, isListening, currentTip)
                  ELSE stopListening(cleaned, isListening))
        /\ Quiet
        /\ UNCHANGED <<platform, speakTips, mounted, smVars, fnVars>>

\* the component is unmounted: the cleanup of the last effect runs, a
\* closure of the render that effect ran in; nothing renders any more
Unmount ==
    /\ mounted
    /\ mounted' = FALSE
    /\ Assign(stopListening(Advisory, cleanupIsListening))
    /\ Quiet
    /\ UNCHANGED <<isRecording, cleanupIsListening, platform, speakTips, smVars, fnVars>>

\* dismissTip that leaves the dismissal timer running
dismissTip_keepsTimer ==
    /\ mounted
    /\ isRecording
    /\ currentTip # None
    /\ Assign([Advisory EXCEPT !.currentTip = None])
    /\ Quiet
    /\ UNCHANGED <<isRecording, cleanupIsListening, platform, speakTips, mounted, smVars, fnVars>>

\* the close button of the tip card
dismissTip ==
    /\ mounted
    /\ isRecording
    /\ currentTip # None
    /\ Assign([(IF tipTimeoutRef # 0 THEN clearTimeout(Advisory, tipTimeoutRef)
                ELSE Advisory) EXCEPT !.currentTip = None])
    /\ Quiet
    /\ UNCHANGED <<isRecording, cleanupIsListening, platform, speakTips, mounted, smVars, fnVars>>

\* a dismissal timer fires: its callback compares the currentTip of the
\* render its closure belongs to with the tip it was set for
TimerFires(t) ==
    /\ t \in timers
    /\ Assign([Advisory EXCEPT
          !.timers = @ \ {t},
          !.currentTip = IF t.currentTip # None /\ t.currentTip[1].id = t.tip.id
                         THEN None ELSE @])
    /\ delivered' = None
    /\ fired' = t.id
    /\ UNCHANGED <<isRecording, cleanupIsListening, platform, speakTips, mounted, smVars, fnVars>>

(***************************************************************************)
(* The steps of the speech service.                                        *)
(***************************************************************************)
\* startListening returns what the function it ended with returned
Resolved(a, i) == [a EXCEPT !.starting = splice(@, i), !.resolved = Some(a.ret)]

\* startListening resumes after isAvailable()
ServiceIsAvailable(i) ==
    /\ starting[i] = "isAvailable"
    /\ \/ /\ CanSimulate
          /\ Assign(Resolved(startSimulation(Advisory), i))
       \/ Assign([Advisory EXCEPT !.starting[i] = "requestPermission"])
    /\ Quiet
    /\ UNCHANGED <<isRecording, cleanupIsListening, platform, speakTips, mounted, smVars, fnVars>>

\* startWebSpeechRecognition: a recognizer is made, wired and started
startWebSpeechRecognition(a) ==
    LET id == FreshId({r.id : r \in a.recognizers} \cup {a.recognitionInstance})
    IN  [a EXCEPT !.recognitionInstance = id,
                  !.recognizers = @ \cup {[id |-> id, started |-> FALSE]},
                  !.ret = TRUE]

\* startListening resumes after requestPermission()
ServiceRequestPermission(i) ==
    /\ starting[i] = "requestPermission"
    /\ IF platform = "web"
       THEN \/ /\ CanRecognize
               /\ Assign(Resolved(startWebSpeechRecognition(Advisory), i))
            \/ /\ CanSimulate
               /\ Assign(Resolved(startSimulation(Advisory), i))
       ELSE \/ Assign([Advisory EXCEPT !.starting[i] = "startListeningAsync"])
            \/ /\ CanSimulate
               /\ Assign(Resolved(startSimulation(Advisory), i))
    /\ Quiet
    /\ UNCHANGED <<isRecording, cleanupIsListening, platform, speakTips, mounted, smVars, fnVars>>

\* startNativeSpeechRecognition resumes after startListeningAsync()
ServiceNativeStarted(i) ==
    /\ starting[i] = "startListeningAsync"
    /\ \/ Assign(Resolved([Advisory EXCEPT !.nativeActive = TRUE,
                                               !.serviceIsListening = TRUE,
                                               !.ret = TRUE], i))
       \/ /\ CanSimulate
          /\ Assign(Resolved(startSimulation(Advisory), i))
    /\ Quiet
    /\ UNCHANGED <<isRecording, cleanupIsListening, platform, speakTips, mounted, smVars, fnVars>>

\* the callback of a simulation interval
IntervalTick(id, p) ==
    /\ id \in intervals
    /\ Hears(p)
    /\ IF ~serviceIsListening
       THEN /\ Assign(IF simulationInterval # 0
                      THEN [Advisory EXCEPT !.intervals = @ \ {simulationInterval},
                                            !.simulationInterval = 0]
                      ELSE Advisory)
            /\ delivered' = None
       ELSE /\ \E throws \in BOOLEAN : Assign(onSpeechResult(Advisory, p, throws))
            /\ delivered' = IF options = None THEN None ELSE Some(p)
    /\ fired' = 0
    /\ UNCHANGED <<isRecording, cleanupIsListening, platform, speakTips, mounted, smVars, fnVars>>

\* recognition.onstart
WebOnStart(r) ==
    /\ r \in recognizers
    /\ ~r.started
    /\ Assign([Advisory EXCEPT !.serviceIsListening = TRUE,
                               !.recognizers = (@ \ {r}) \cup {[r EXCEPT !.started = TRUE]}])
    /\ Quiet
    /\ UNCHANGED <<isRecording, cleanupIsListening, platform, speakTips, mounted, smVars, fnVars>>

\* recognition.onresult with a result that is passed on
WebOnResult(r, p) ==
    /\ r \in recognizers
    /\ r.started
    /\ Hears(p)
    /\ \E throws \in BOOLEAN : Assign(onSpeechResult(Advisory, p, throws))
    /\ delivered' = IF options = None THEN None ELSE Some(p)
    /\ fired' = 0
    /\ UNCHANGED <<isRecording, cleanupIsListening, platform, speakTips, mounted, smVars, fnVars>>

\* recognition.onerror with an error other than 'network' and 'no-speech'
WebOnError(r) ==
    /\ r \in recognizers
    /\ CanSimulate
    /\ Assign(startSimulation(Advisory))
    /\ Quiet
    /\ UNCHANGED <<isRecording, cleanupIsListening, platform, speakTips, mounted, smVars, fnVars>>

\* onSpeechPartialResults / onSpeechResults with a result that is passed on
NativeOnResult(p) ==
    /\ nativeActive
    /\ Hears(p)
    /\ \E throws \in BOOLEAN : Assign(onSpeechResult(Advisory, p, throws))
    /\ delivered' = IF options = None THEN None ELSE Some(p)
    /\ fired' = 0
    /\ UNCHANGED <<isRecording, cleanupIsListening, platform, speakTips, mounted, smVars, fnVars>>

\* onSpeechError of the native recognizer
NativeOnError ==
    /\ nativeActive
    /\ CanSimulate
    /\ Assign(startSimulation(Advisory))
    /\ Quiet
    /\ UNCHANGED <<isRecording, cleanupIsListening, platform, speakTips, mounted, smVars, fnVars>>

\* onSpeechEnd of the native recognizer: restarted while listening
NativeOnEnd ==
    /\ nativeActive
    /\ serviceIsListening => Len(starting) < MaxInFlight
    /\ Assign([Advisory EXCEPT
          !.nativeActive = FALSE,
          !.starting = IF serviceIsListening THEN Append(@, "startListeningAsync")
                       ELSE @])
    /\ Quiet
    /\ UNCHANGED <<isRecording, cleanupIsListening, platform, speakTips, mounted, smVars, fnVars>>

\* recognition.onend: the recognizer has stopped; while the service is
\* listening and holds a recognizer, restartWebSpeechRecognition sets a
\* timer of 100 ms
WebOnEnd(r) ==
    LET restarts == serviceIsListening /\ recognitionInstance # 0
    IN  /\ r \in recognizers
        /\ r.started
        /\ restarts => Len(starting) < MaxInFlight
        /\ Assign([Advisory EXCEPT
              !.recognizers = @ \ {r},
              !.starting = IF restarts THEN Append(@, "restart") ELSE @])
        /\ Quiet
        /\ UNCHANGED <<isRecording, cleanupIsListening, platform, speakTips, mounted, smVars, fnVars>>

\* the timer of restartWebSpeechRecognition fires: start() on the recognizer
\* the service holds now; on a recognizer that is running start() throws
\* and changes nothing
WebRestart(i) ==
    LET a == [Advisory EXCEPT !.starting = splice(@, i)]
    IN  /\ starting[i] = "restart"
        /\ Assign(IF /\ serviceIsListening
                     /\ recognitionInstance # 0
                     /\ recognitionInstance \notin {r.id : r \in recognizers}
                  THEN [a EXCEPT !.recognizers =
                          @ \cup {[id |-> recognitionInstance, started |-> FALSE]}]
                  ELSE a)
        /\ Quiet
        /\ UNCHANGED <<isRecording, cleanupIsListening, platform, speakTips, mounted, smVars, fnVars>>

(***************************************************************************)
(* The manager once initializeStorage has completed in an installation     *)
(* that was used before: one real session of an earlier run is stored,     *)
(* the two demonstration sessions are stored as placeholders, and the      *)
(* collection holds the three, sorted by createdAt, latest first.          *)
(***************************************************************************)
PreviousSession ==
    [id |-> SessionId(0), createdAt |-> 0, duration |-> formatDuration(65),
     snippet |-> mockAnalyses[6].summary, status |-> "Complete",
     quality |-> determineQuality(mockAnalyses[6].confidence),
     transcript |-> transcripts[6], aiAnalysis |-> Some(mockAnalyses[6]),
     processingSteps |-> Steps(TRUE, TRUE, TRUE),
     isRealSession |-> TRUE, ref |-> 0]

InitManager ==
    /\ now = 1
    /\ sessions = <<PreviousSession>> \o initializeMockData
    /\ currentSession = None
    /\ recordingStartTime = 0
    /\ stored = <<PreviousSession>>
    /\ placeholders = initializeMockData
    /\ tasks = <<>>
    /\ nextRef = 0
    /\ history = <<>>
    /\ notification = None
    /\ listeners = <<>>
    /\ invoked = <<>>
    /\ returned = None
    /\ isInitialized = TRUE
    /\ loaded = 1
    /\ seeded = 0

\* the ids a caller may pass to deleteSession: those it can see, and a foreign one
SessionIds == {sessions[k].id : k \in DOMAIN sessions} \cup {"session_none"}

NextManager ==
    \/ Tick
    \/ StartSession
    \/ EndSessionCall
    \/ \E d \in Durations : SaveSessionCall(d)
    \/ \E id \in SessionIds : DeleteSessionCall(id)
    \/ \E i \in DOMAIN tasks : StorageSaveRead(i)
    \/ \E i \in DOMAIN tasks : EndSessionResume(i)
    \/ \E i \in DOMAIN tasks : SaveSessionResume(i)
    \/ \E i \in DOMAIN tasks : PipelineStart(i)
    \/ \E i \in DOMAIN tasks : PipelineTranscript(i)
    \/ \E i \in DOMAIN tasks : PipelineAnalysis(i)
    \/ \E i \in DOMAIN tasks : StorageUpdateRead(i)
    \/ \E i \in DOMAIN tasks : UpdateResume(i)
    \/ \E i \in DOMAIN tasks : StorageDeleteRead(i)
    \/ \E i \in DOMAIN tasks : DeleteSessionResume(i)

Platforms == {"web", "ios"}

\* the component is mounted with isRecording false: its first effect ran
\* stopListening, which returned at once; the service was never started
InitAdvisory ==
    /\ isRecording = FALSE
    /\ isListening = FALSE
    /\ currentTip = None
    /\ tipHistory = <<>>
    /\ tipTimeoutRef = 0
    /\ timers = {}
    /\ cleanupIsListening = FALSE
    /\ serviceIsListening = FALSE
    /\ options = None
    /\ simulationInterval = 0
    /\ intervals = {}
    /\ recognitionInstance = 0
    /\ recognizers = {}
    /\ nativeActive = FALSE
    /\ starting = <<>>
    /\ delivered = None
    /\ fired = 0
    /\ narration = "none"
    /\ tipDetected = <<>>
    /\ resolved = None
    /\ mounted = TRUE

\* the phrases heard: one that detects a tip of each urgency (medium, low,
\* high) and one that detects none
Phrases == {1, 2, 4, 6}

NextAdvisory ==
    \/ SetRecording
    \/ dismissTip
    \/ \E t \in timers : TimerFires(t)
    \/ \E i \in DOMAIN starting : ServiceIsAvailable(i)
    \/ \E i \in DOMAIN starting : ServiceRequestPermission(i)
    \/ \E i \in DOMAIN starting : ServiceNativeStarted(i)
    \/ \E id \in intervals, p \in Phrases : IntervalTick(id, p)
    \/ \E r \in recognizers : WebOnStart(r)
    \/ \E r \in recognizers, p \in Phrases : WebOnResult(r, p)
    \/ \E r \in recognizers : WebOnError(r)
    \/ \E p \in Phrases : NativeOnResult(p)
    \/ NativeOnError
    \/ NativeOnEnd


(***************************************************************************)
(* The specifications: the session manager with the advisory controller    *)
(* idle (the manager does not read Platform.OS); the same with its         *)
(* subscribers and clearAllSessions; the advisory controller on either     *)
(* platform, with narration on or off, with the session manager idle; and  *)
(* the pure functions, each applied to one argument.  Further down: the    *)
(* manager on a device whose storage may refuse writes, the controller     *)
(* with its unmounting, the life of the speech sources, and the start of   *)
(* the application.                                                        *)
(***************************************************************************)
\* no call of a pure function is under way
NoCall == call = None /\ result = None

Init ==
    /\ InitManager /\ InitAdvisory /\ NoCall
    /\ platform = "ios" /\ speakTips = FALSE
    /\ setItemThrows = FALSE

Spec == Init /\ [][NextManager]_vars

\* the manager with its subscribers and the reset
NextListeners ==
    \/ NextManager
    \/ \E l \in Listeners : addListener(l)
    \/ \E l \in Listeners : removeListener(l)
    \/ ClearAllSessionsCall
    \/ \E i \in DOMAIN tasks : StorageClearAllSessions(i)
    \/ \E i \in DOMAIN tasks : ClearAllSessionsResume(i)

SpecListeners == Init /\ [][NextListeners]_vars

\* the manager on a device whose storage takes every write or rejects every write
InitFailing ==
    /\ InitManager /\ InitAdvisory /\ NoCall
    /\ platform = "ios" /\ speakTips = FALSE
    /\ setItemThrows \in BOOLEAN

SpecFailing == InitFailing /\ [][NextManager]_vars

(***************************************************************************)
(* The pure functions, each applied to one argument.  A transcript is what *)
(* a recognizer may deliver: nothing, blanks, or up to MaxUtterances of    *)
(* the phrases in a row.                                                   *)
(***************************************************************************)
RECURSIVE Utterances(_)
Utterances(n) ==
    IF n = 0 THEN {""}
    ELSE LET shorter == Utterances(n - 1)
         IN  shorter \cup
             {IF u = "" THEN simulatedPhrases[p] ELSE u \o " " \o simulatedPhrases[p] :
                 u \in shorter, p \in DOMAIN simulatedPhrases}

Heard == Utterances(MaxUtterances) \cup {" ", "   "}

\* the words generateMockAnalysis looks for, and two that hold none of them
Words ==
    {"arrest", "search", "probable cause", "ice", "immigration", "citizen",
     "workplace", "supervisor", "overtime", "store", "return", "receipt",
     "Hello", "Thank you"}

\* what may be handed to generateMockAnalysis: a mock transcript, or a text
\* of two of the words, as written or in capitals at the start
Written ==
    {transcripts[k] : k \in DOMAIN transcripts}
        \cup {a \o ", " \o b : a, b \in Words}
        \cup {"ARREST", "Search", "ICE", "Citizen", "OverTime", "RECEIPT", ""}

\* confidence values, in hundredths
Confidences == 0..100

\* every trigger phrase of LEGAL_TIPS, alone
Triggers ==
    UNION {{LEGAL_TIPS[n].trigger[k] : k \in DOMAIN LEGAL_TIPS[n].trigger} :
              n \in DOMAIN LEGAL_TIPS}

Calls ==
    [fn : {"analyzeSpeech"}, arg : Heard \cup Triggers]
        \cup [fn : {"generateMockAnalysis"}, arg : Written]
        \cup [fn : {"determineQuality"}, arg : Confidences]
        \cup [fn : {"complete"}, arg : DOMAIN transcripts]

CallAnalyzeSpeech ==
    /\ call # None /\ result = None
    /\ call[1].fn = "analyzeSpeech"
    /\ result' = Some(analyzeSpeech(call[1].arg))
    /\ UNCHANGED <<smVars, advVars, call>>

\* generateMockAnalysis, once its 2500 ms delay has passed
CallGenerateMockAnalysis ==
    /\ call # None /\ result = None
    /\ call[1].fn = "generateMockAnalysis"
    /\ result' = Some(generateMockAnalysis(call[1].arg))
    /\ UNCHANGED <<smVars, advVars, call>>

CallDetermineQuality ==
    /\ call # None /\ result = None
    /\ call[1].fn = "determineQuality"
    /\ result' = Some(determineQuality(call[1].arg))
    /\ UNCHANGED <<smVars, advVars, call>>

\* the completing step of the pipeline: the updates it hands to
\* updateSessionProgress for the transcript that was picked
CallComplete ==
    /\ call # None /\ result = None
    /\ call[1].fn = "complete"
    /\ result' = Some(Updates(2, call[1].arg))
    /\ UNCHANGED <<smVars, advVars, call>>

NextCalls ==
    \/ CallAnalyzeSpeech
    \/ CallGenerateMockAnalysis
    \/ CallDetermineQuality
    \/ CallComplete

InitCalls ==
    /\ InitManager /\ InitAdvisory /\ platform = "ios" /\ speakTips = FALSE
    /\ setItemThrows = FALSE
    /\ \E c \in Calls : call = Some(c)
    /\ result = None

SpecCalls == InitCalls /\ [][NextCalls]_vars

InitPlatforms ==
    /\ InitManager /\ InitAdvisory /\ NoCall
    /\ platform \in Platforms
    /\ speakTips \in BOOLEAN
    /\ setItemThrows = FALSE

SpecAdvisory == InitPlatforms /\ [][NextAdvisory]_vars

NextUnmount == NextAdvisory \/ Unmount

InitUnmount ==
    /\ InitManager /\ InitAdvisory /\ NoCall
    /\ platform \in Platforms
    /\ speakTips = FALSE
    /\ setItemThrows = FALSE

SpecUnmount == InitUnmount /\ [][NextUnmount]_vars

\* the life of the speech sources before anything is heard (the first
\* simulated phrase comes 10 s after the simulation started): starts, stops,
\* errors, ends and restarts
NextRestart ==
    \/ SetRecording
    \/ \E i \in DOMAIN starting : ServiceIsAvailable(i)
    \/ \E i \in DOMAIN starting : ServiceRequestPermission(i)
    \/ \E i \in DOMAIN starting : ServiceNativeStarted(i)
    \/ \E r \in recognizers : WebOnStart(r)
    \/ \E r \in recognizers : WebOnError(r)
    \/ \E r \in recognizers : WebOnEnd(r)
    \/ \E i \in DOMAIN starting : WebRestart(i)
    \/ NativeOnError
    \/ NativeOnEnd

SpecRestart == InitUnmount /\ [][NextRestart]_vars


(***************************************************************************)
(* The start of the application: the constructor called initializeStorage  *)
(* without awaiting it, and the screens call the manager while the         *)
(* requests of initializeStorage are in flight.  The background pipeline   *)
(* of a saved session starts 3000 ms after the save and is not part of     *)
(* this window.                                                            *)
(***************************************************************************)
RECURSIVE sortByCreatedAt(_)
\* Array.prototype.sort with (a, b) => (b.createdAt || 0) - (a.createdAt || 0):
\* latest first, stable
sortByCreatedAt(arr) ==
    IF arr = <<>> THEN <<>>
    ELSE LET k == CHOOSE k \in DOMAIN arr :
                     /\ \A j \in DOMAIN arr : arr[j].createdAt <= arr[k].createdAt
                     /\ \A j \in 1..(k - 1) : arr[j].createdAt < arr[k].createdAt
         IN  <<arr[k]>> \o sortByCreatedAt(splice(arr, k))

\* initializeStorage, up to the first await of loadSessionsFromStorage
initializeStorage(caller) == NewTask(caller, "init_getJSON")

\* an initializeStorage ends: the call of getSessions that awaited it returns
\* a copy of the collection; the constructor awaits nothing
InitializeStorageEnds(i) ==
    /\ tasks' = splice(tasks, i)
    /\ returned' = IF tasks[i].kind = "getSessions"
                   THEN Returned("getSessions", "", "sessions", None) ELSE None

\* loadSessionsFromStorage: storageUtils.getJSON resolves with the placeholders
LoadPlaceholders(i) ==
    /\ tasks[i].pc = "init_getJSON"
    /\ tasks' = [tasks EXCEPT ![i].pc = "init_getSessions", ![i].buf = placeholders]
    /\ Silent
    /\ returned' = None
    /\ UNCHANGED <<advVars, fnVars, initVars, setItemThrows, listeners, now, sessions,
                   currentSession, recordingStartTime, stored, placeholders,
                   nextRef, history>>

\* loadSessionsFromStorage: sessionStorage.getSessions resolves with the real
\* sessions and this.sessions is assigned; back in initializeStorage, an
\* empty collection is seeded by initializeMockData, which awaits
\* saveSessionsToStorage
LoadSessions(i) ==
    LET list == sortByCreatedAt(stored \o tasks[i].buf)
    IN  /\ tasks[i].pc = "init_getSessions"
        /\ loaded' = loaded + 1
        /\ IF list = <<>>
           THEN /\ sessions' = initializeMockData
                /\ seeded' = seeded + 1
                /\ tasks' = [tasks EXCEPT
                      ![i].pc = "init_setJSON",
                      ![i].buf = SelectSeq(initializeMockData,
                                           LAMBDA x : ~x.isRealSession)]
                /\ returned' = None
                /\ UNCHANGED isInitialized
           ELSE /\ sessions' = list
                /\ isInitialized' = TRUE
                /\ InitializeStorageEnds(i)
                /\ UNCHANGED seeded
        /\ Silent
        /\ UNCHANGED <<advVars, fnVars, setItemThrows, listeners, now, currentSession,
                       recordingStartTime, stored, placeholders, nextRef, history>>

\* saveSessionsToStorage of initializeMockData: setJSON has taken effect
SeedSaved(i) ==
    /\ tasks[i].pc = "init_setJSON"
    /\ placeholders' = setItem(placeholders, tasks[i].buf)
    /\ isInitialized' = TRUE
    /\ InitializeStorageEnds(i)
    /\ Silent
    /\ UNCHANGED <<advVars, fnVars, setItemThrows, listeners, now, sessions,
                   currentSession, recordingStartTime, stored, nextRef, history,
                   loaded, seeded>>

\* SessionManager.getSessions, up to its await
GetSessionsCall ==
    /\ CanCall
    /\ history' = Append(history, "getSessions")
    /\ IF isInitialized
       THEN /\ returned' = Returned("getSessions", "", "sessions", None)
            /\ UNCHANGED tasks
       ELSE /\ tasks' = Append(tasks, initializeStorage("getSessions"))
            /\ returned' = None
    /\ Silent
    /\ UNCHANGED <<advVars, fnVars, initVars, setItemThrows, listeners, now, sessions,
                   currentSession, recordingStartTime, stored, placeholders, nextRef>>

NextStartup ==
    \/ Tick
    \/ StartSession
    \/ EndSessionCall
    \/ \E d \in Durations : SaveSessionCall(d)
    \/ GetSessionsCall
    \/ \E i \in DOMAIN tasks : StorageSaveRead(i)
    \/ \E i \in DOMAIN tasks : EndSessionResume(i)
    \/ \E i \in DOMAIN tasks : SaveSessionResume(i)
    \/ \E i \in DOMAIN tasks : LoadPlaceholders(i)
    \/ \E i \in DOMAIN tasks : LoadSessions(i)
    \/ \E i \in DOMAIN tasks : SeedSaved(i)

\* the constructor has run, on a device whose storage is empty or holds the
\* session of an earlier run and the demonstration sessions
InitStartup ==
    /\ InitAdvisory /\ NoCall /\ platform = "ios" /\ speakTips = FALSE
    /\ setItemThrows = FALSE
    /\ now = 1
    /\ sessions = <<>>
    /\ currentSession = None
    /\ recordingStartTime = 0
    /\ \E first \in BOOLEAN :
          /\ stored = IF first THEN <<>> ELSE <<PreviousSession>>
          /\ placeholders = IF first THEN <<>> ELSE initializeMockData
    /\ tasks = <<initializeStorage("constructor")>>
    /\ nextRef = 0
    /\ history = <<>>
    /\ notification = None
    /\ listeners = <<>>
    /\ invoked = <<>>
    /\ returned = None
    /\ isInitialized = FALSE
    /\ loaded = 0
    /\ seeded = 0

SpecStartup == InitStartup /\ [][NextStartup]_vars


(***************************************************************************)
(* Properties of the session manager, checked under Spec.                  *)
(***************************************************************************)
Ids(list) == {list[k].id : k \in DOMAIN list}
Called(method) == history' = Append(history, method)
Returns(kind) == returned' # None /\ returned'[1].kind = kind
Pipelines == {i \in DOMAIN tasks : tasks[i].kind = "pipeline"}
Quiescent == \A i \in DOMAIN tasks : tasks[i].pc = "done"

\* C1: a call of startSession made while a session is active is rejected
\* and leaves the active session as it was; the active session is never
\* silently replaced.
C1_SecondStartRejected ==
    [][(Called("startSession") /\ currentSession # None)
          => /\ currentSession' = currentSession
             /\ ~(Returns("startSession") /\ returned'[1].tag = "session")]_vars

\* C2: every record that enters the collection with status Processing,
\* whether endSession or saveSession added it, reaches Complete or Failed:
\* once no call is in flight and every pipeline has run to its end, no
\* record of the collection is still Processing.
C2_NoRecordStaysProcessing ==
    Quiescent => \A k \in DOMAIN sessions : sessions[k].status # "Processing"

\* C3: after startSession, endSession, saveSession(154, ref): saveSession
\* returns a session with duration "2:34" and status Processing, and once
\* the pipeline has run without failure that session is Complete, of
\* quality Excellent, its snippet the summary of the selected analysis (not
\* the placeholder text), its transcript and aiAnalysis set.
C3_Scenario == history = <<"startSession", "endSession", "saveSession">>

C3_EndToEnd ==
    C3_Scenario =>
      /\ \A i \in DOMAIN tasks :
           (tasks[i].kind = "saveSession" /\ tasks[i].dur = 154) =>
               /\ tasks[i].arg[1].duration = "2:34"
               /\ tasks[i].arg[1].status = "Processing"
      /\ (returned # None /\ returned[1].kind = "saveSession") =>
               /\ returned[1].tag = "session"
               /\ returned[1].val[1].status = "Processing"
               /\ \A i \in Pipelines :
                     tasks[i].dur = 154 => returned[1].val[1].duration = "2:34"
               /\ returned[1].val[1].id = returned[1].sid
      /\ \A i \in Pipelines :
           (tasks[i].pc = "done" /\ ~tasks[i].failed) =>
               LET index == findIndex(sessions, tasks[i].sid)
                   s == sessions[index]
               IN  /\ index # 0
                   /\ tasks[i].dur = 154 => s.duration = "2:34"
                   /\ s.status = "Complete"
                   /\ s.quality = "Excellent"
                   /\ s.snippet = mockAnalyses[tasks[i].tr].summary
                   /\ s.snippet # "Processing session analysis..."
                   /\ tasks[i].tr \in DOMAIN transcripts
                   /\ s.transcript = transcripts[tasks[i].tr]
                   /\ s.aiAnalysis = Some(mockAnalyses[tasks[i].tr])
                   /\ s.aiAnalysis[1].confidence = 90

C3_Witness ==
    /\ C3_Scenario
    /\ \E i \in Pipelines :
          /\ tasks[i].pc = "done" /\ ~tasks[i].failed /\ tasks[i].dur = 154
          /\ sessions[findIndex(sessions, tasks[i].sid)].status = "Complete"
          /\ sessions[findIndex(sessions, tasks[i].sid)].duration = "2:34"

\* C4: when a step of the pipeline fails, the session is set to Failed
\* with quality Poor and the failure snippet and stays in the collection,
\* the listeners are then notified with the collection, and saveSession
\* has returned its session to the caller all the same.
C4_EntersCatch(i) ==
    /\ Len(tasks') = Len(tasks)
    /\ tasks[i].kind = "pipeline"
    /\ tasks'[i].kind = "pipeline"
    /\ tasks[i].stage # 3
    /\ tasks'[i].stage = 3

C4_CatchDone(i) ==
    /\ Len(tasks') = Len(tasks)
    /\ tasks[i].kind = "pipeline"
    /\ tasks[i].stage = 3
    /\ tasks[i].pc # "done"
    /\ tasks'[i].pc = "done"

C4_PipelineFailure ==
    [][/\ \A i \in DOMAIN tasks :
            (C4_EntersCatch(i) /\ findIndex(sessions, tasks[i].sid) # 0) =>
                LET index == findIndex(sessions', tasks[i].sid)
                IN  /\ index = findIndex(sessions, tasks[i].sid)
                    /\ Len(sessions') = Len(sessions)
                    /\ sessions'[index].status = "Failed"
                    /\ sessions'[index].quality = "Poor"
                    /\ sessions'[index].snippet = "Analysis failed. Please try again."
       /\ \A i \in DOMAIN tasks :
            C4_CatchDone(i) =>
                /\ tasks'[i].failed
                /\ findIndex(sessions, tasks[i].sid) # 0 =>
                      /\ notification' = Some(sessions')
                      /\ sessions' = sessions
       /\ Returns("saveSession") => returned'[1].tag = "session"]_vars

C4_Witness ==
    \E i \in Pipelines :
        /\ tasks[i].pc = "done" /\ tasks[i].failed
        /\ notification # None
        /\ findIndex(notification[1], tasks[i].sid) # 0
        /\ notification[1][findIndex(notification[1], tasks[i].sid)].status = "Failed"

\* C8: endSession with an active session sets it to Processing, puts it at
\* the front of the collection exactly once, persists it, notifies the
\* listeners with a collection that holds it, returns a snapshot of it and
\* leaves the active slot empty, also when calls of endSession overlap.
C8_EndSession ==
    [][/\ (Called("endSession") /\ currentSession # None) =>
            /\ sessions'[1].id = currentSession[1].id
            /\ sessions'[1].status = "Processing"
            /\ Cardinality({k \in DOMAIN sessions' :
                              SameObject(sessions'[k], currentSession[1])}) = 1
       /\ (Returns("endSession") /\ returned'[1].tag # "null") =>
            /\ returned'[1].tag = "session"
            /\ returned'[1].val[1].id = returned'[1].sid
            /\ returned'[1].val[1].status = "Processing"
            /\ returned'[1].sid \in Ids(stored')
            /\ notification' # None
            /\ returned'[1].sid \in Ids(notification'[1])
            /\ currentSession' = None]_vars

\* C9: endSession with no active session returns null, leaves the
\* collection, the persisted store and the active slot as they were and
\* notifies no listener.
C9_EndSessionWhenIdle ==
    [][(Called("endSession") /\ currentSession = None) =>
            /\ returned' = Returned("endSession", "", "null", None)
            /\ notification' = None
            /\ UNCHANGED <<sessions, stored, placeholders, currentSession,
                           recordingStartTime, tasks>>]_vars

C9_Witness ==
    /\ returned # None
    /\ returned[1].kind = "endSession"
    /\ returned[1].tag = "null"
    /\ currentSession = None

\* C10: deleteSession(id) with id in the collection removes that session,
\* and no other, from the collection the listeners see and from the
\* persisted store and returns true; with id not in the collection it
\* returns false and changes nothing (so a second deletion of the same id
\* returns false).
C10_Deleting == {tasks[i].sid : i \in {j \in DOMAIN tasks : tasks[j].kind = "deleteSession"}}
                  \cup {tasks'[i].sid : i \in {j \in DOMAIN tasks' : tasks'[j].kind = "deleteSession"}}

C10_DeleteSession ==
    [][/\ (Returns("deleteSession") /\ returned'[1].tag = "true") =>
            /\ returned'[1].sid \notin Ids(sessions')
            /\ returned'[1].sid \notin Ids(stored')
            /\ returned'[1].sid \notin Ids(placeholders')
            /\ notification' = Some(sessions')
       /\ (Returns("deleteSession") /\ returned'[1].tag = "false") =>
            /\ returned'[1].sid \notin Ids(sessions)
            /\ UNCHANGED <<sessions, stored, placeholders>>
            /\ notification' = None
       /\ Len(sessions') < Len(sessions) =>
            \E k \in DOMAIN sessions :
                /\ sessions' = splice(sessions, k)
                /\ sessions[k].id \in C10_Deleting]_vars

(***************************************************************************)
(* Properties of the advisory controller, checked under SpecAdvisory.      *)
(***************************************************************************)
Detected == delivered' # None /\ detectedTips[delivered'[1]] # None

\* C5: at most one tip is visible and at most one dismissal timer is
\* pending, the one tipTimeoutRef names; a detection makes the detected tip
\* the visible one, cancels the timer of the previous tip and starts its
\* own, and detections are recorded in arrival order.
C5_OneTipOneTimer ==
    /\ [](/\ Len(currentTip) <= 1
          /\ Cardinality(timers) <= 1
          /\ \A t \in timers : t.id = tipTimeoutRef)
    /\ [][Detected =>
            LET tip == detectedTips[delivered'[1]][1]
            IN  /\ currentTip' = Some(tip)
                /\ timers' \cap timers = {}
                /\ \E t \in timers' :
                      /\ timers' = {t}
                      /\ t.tip = tip
                      /\ t.hideDelay = hideDelay(tip.urgency)
                      /\ tipTimeoutRef' = t.id
                /\ tipHistory' = Append(tipHistory, tip.id)]_vars

C5_Witness ==
    /\ delivered # None
    /\ Len(tipHistory) = 2
    /\ tipHistory[1] # tipHistory[2]
    /\ currentTip # None
    /\ currentTip[1].id = tipHistory[2]
    /\ \E t \in timers : t.tip.id = tipHistory[2]

\* C6: when a dismissal timer fires (set for 12000, 10000 or 8000 ms by
\* urgency) and the visible tip is still the tip the timer was set for, the
\* visible tip becomes null.
C6_TimerClearsTip ==
    [][\A t \in timers :
          (fired' = t.id /\ t \notin timers'
              /\ t.hideDelay = hideDelay(t.tip.urgency)
              /\ currentTip = Some(t.tip))
          => currentTip' = None]_vars

C11_Mutation ==
    \/ StartSession
    \/ \E i \in DOMAIN tasks : EndSessionResume(i)
    \/ \E i \in DOMAIN tasks : UpdateResume(i)
    \/ \E i \in DOMAIN tasks :
          StorageUpdateRead(i) /\ findIndex(stored, tasks[i].sid) = 0
    \/ \E i \in DOMAIN tasks : DeleteSessionResume(i)
    \/ \E i \in DOMAIN tasks :
          StorageDeleteRead(i) /\ findIndex(stored, tasks[i].sid) = 0
    \/ \E i \in DOMAIN tasks : ClearAllSessionsResume(i)

\* C11: on every mutation of the manager (session start, session end, each
\* progress update of the pipeline, delete and clear) every registered
\* listener is invoked with the full current ordered session collection; a
\* listener that was removed with removeListener is not invoked afterwards.
C11_ListenersNotified ==
    [][/\ C11_Mutation
          => /\ invoked' = listeners
             /\ listeners # <<>>
                   => notification' \in {Some(sessions), Some(sessions')}
       /\ \A k \in DOMAIN invoked' :
             \E j \in DOMAIN listeners' : listeners'[j] = invoked'[k]]_vars

(***************************************************************************)
(* Claims about LegalSpeechAnalyzer.analyzeSpeech.                          *)
(***************************************************************************)
\* tip n declares a trigger phrase that occurs in the lowercased transcript
Triggered(n, transcript) ==
    \E k \in DOMAIN LEGAL_TIPS[n].trigger :
        includes(toLowerCase(transcript), LEGAL_TIPS[n].trigger[k])

Analyzed == call # None /\ call[1].fn = "analyzeSpeech" /\ result # None

\* C12: for every transcript whose lowercase form contains at least one
\* declared trigger phrase, analyzeSpeech returns a tip, that tip has a
\* trigger phrase occurring in the lowercased transcript, and no tip declared
\* before it in LEGAL_TIPS has one (first-declared-wins).
C12_FirstDeclaredWins ==
    (Analyzed /\ \E n \in DOMAIN LEGAL_TIPS : Triggered(n, call[1].arg))
        => /\ result[1] # None
           /\ \E n \in DOMAIN LEGAL_TIPS :
                 /\ result[1] = Some(LEGAL_TIPS[n])
                 /\ Triggered(n, call[1].arg)
                 /\ \A m \in 1..(n - 1) : ~Triggered(m, call[1].arg)

\* analyzeSpeech has returned for a transcript in which two tips match, and
\* the one it returned is not the only one
C12_Witness ==
    /\ Analyzed
    /\ result[1] # None
    /\ \E n, m \in DOMAIN LEGAL_TIPS :
          /\ n < m
          /\ result[1][1].id = LEGAL_TIPS[n].id
          /\ Triggered(n, call[1].arg)
          /\ Triggered(m, call[1].arg)

\* C13: for every transcript that contains no declared trigger phrase as a
\* substring, the empty and the whitespace-only transcript included,
\* what analyzeSpeech returns is null (no path of it throws).
C13_NoTriggerNoTip ==
    (Analyzed /\ \A n \in DOMAIN LEGAL_TIPS : ~Triggered(n, call[1].arg))
        => result[1] = None

\* analyzeSpeech has returned null for a transcript of blanks
C13_Witness ==
    /\ Analyzed
    /\ call[1].arg # ""
    /\ trim(call[1].arg) = ""
    /\ result[1] = None

(***************************************************************************)
(* Claims about the scenario selector.                                     *)
(***************************************************************************)
\* the lowercased transcript holds one of the keywords of the group
Mentions(transcript, group) ==
    \E w \in group : includes(toLowerCase(transcript), w)

\* the scenario the priority order of the keyword groups asks for
C14_Expected(transcript) ==
    IF Mentions(transcript, {"arrest", "search", "probable cause"}) THEN "Police Stop"
    ELSE IF Mentions(transcript, {"ice", "immigration", "citizen"}) THEN "ICE Encounter"
    ELSE IF Mentions(transcript, {"workplace", "supervisor", "overtime"}) THEN "Workplace Dispute"
    ELSE IF Mentions(transcript, {"store", "return", "receipt"}) THEN "Consumer Rights"
    ELSE "Police Stop"

Selected == call # None /\ call[1].fn = "generateMockAnalysis" /\ result # None

\* C14: generateMockAnalysis picks the scenario by the keyword groups of the
\* lowercased transcript in a fixed priority order: arrest/search/probable
\* cause gives the police scenario; otherwise ice/immigration/citizen gives
\* the ICE scenario (urgencyLevel critical, requiresLegalAttention true);
\* otherwise workplace/supervisor/overtime gives the workplace scenario;
\* otherwise store/return/receipt gives the consumer scenario; otherwise the
\* police scenario.  The result is fixed by the transcript and its
\* confidence is always 0.9.
C14_ScenarioByPriority ==
    Selected =>
        LET analysis == result[1]
            expected == C14_Expected(call[1].arg)
        IN  /\ analysis.situationType = expected
            /\ analysis.confidence = 90
            /\ expected = "Police Stop"
                  => analysis.summary = ScenarioPolice.summary
            /\ expected = "ICE Encounter"
                  => /\ analysis.urgencyLevel = "critical"
                     /\ analysis.requiresLegalAttention
                     /\ analysis.summary = ScenarioIce.summary
            /\ expected = "Workplace Dispute"
                  => analysis.summary = ScenarioWorkplace.summary
            /\ expected = "Consumer Rights"
                  => analysis.summary = ScenarioConsumer.summary

\* generateMockAnalysis has returned the police scenario for a transcript
\* that holds a keyword of the police group and one of the immigration group
C14_Witness ==
    /\ Selected
    /\ Mentions(call[1].arg, {"arrest", "search", "probable cause"})
    /\ Mentions(call[1].arg, {"ice", "immigration", "citizen"})
    /\ result[1].situationType = "Police Stop"

(***************************************************************************)
(* Claims about the tips the controller keeps and shows.                   *)
(***************************************************************************)
\* the last three elements of a list, or all of it when it is shorter
LastThree(list) ==
    IF Len(list) <= 3 THEN list ELSE SubSeq(list, Len(list) - 2, Len(list))

\* C15: the recent-tip history never holds more than 3 entries, and every
\* detection leaves in it the ids of the (up to) 3 most recently detected
\* tips since the last start, in detection order.
C15_RecentTipsCapped ==
    [][/\ Len(tipHistory') <= 3
       /\ Detected
             => tipHistory' = LastThree(Append(tipHistory, detectedTips[delivered'[1]][1].id))]_vars

\* C16: dismissTip, at any moment while a tip is visible, sets the visible
\* tip to null and cancels the pending dismissal timer: no timer set before
\* the dismissal is left to fire, so none can clear a tip detected later.
C16_DismissCancels ==
    [][dismissTip => currentTip' = None /\ timers' = {}]_vars

\* a tip was detected, its timer is the one tipTimeoutRef names, and after
\* the dismissal neither the tip nor the timer is there
C16_Witness ==
    /\ isRecording /\ isListening
    /\ tipHistory # <<>>
    /\ tipTimeoutRef # 0
    /\ currentTip = None
    /\ timers = {}
    /\ fired = 0 /\ delivered = None

\* C17: for every recognized text delivered while the controller is
\* listening, onTipDetected is invoked exactly once, with the matched tip,
\* when the text matches a tip, and not at all when it matches none, whether
\* narration is off, succeeds or fails; no other step invokes it.
C17_CallbackOncePerDetection ==
    [][/\ (delivered' # None /\ isListening)
             => tipDetected' = IF detectedTips[delivered'[1]] = None THEN <<>>
                               ELSE <<detectedTips[delivered'[1]][1].id>>
       /\ delivered' = None => tipDetected' = <<>>]_vars

\* a text that matches a tip was delivered while listening, narration was on
\* and failed, and onTipDetected was invoked with that tip
C17_Witness ==
    /\ isListening
    /\ delivered # None
    /\ detectedTips[delivered[1]] # None
    /\ speakTips
    /\ narration = "failed"
    /\ tipDetected = <<detectedTips[delivered[1]][1].id>>

(***************************************************************************)
(* Claims about SpeechRecognitionService.startListening.                   *)
(***************************************************************************)
\* the synthetic phrase generator is running and its phrases are passed on
Simulating ==
    /\ simulationInterval # 0
    /\ simulationInterval \in intervals
    /\ serviceIsListening

\* C18: startListening never propagates an error to its caller.  A call
\* that ends without live recognition (recognition unavailable, permission
\* denied, starting the recognizer throws) leaves the synthetic phrase
\* generator running, which hands its phrases to the same onSpeechResult
\* callback as live recognition, and the call resolves true.
C18_FallbackResolvesTrue ==
    [][resolved' # None
          => /\ resolved' = Some(TRUE)
             /\ \/ Simulating'
                \/ nativeActive'
                \/ recognitionInstance' # 0 /\ recognitionInstance' # recognitionInstance]_vars

\* a call has just resolved true with no live recognizer: the generator runs
C18_Witness ==
    /\ resolved = Some(TRUE)
    /\ Simulating
    /\ recognizers = {} /\ ~nativeActive
    /\ options # None

(***************************************************************************)
(* Claims about the records of the collection.                             *)
(***************************************************************************)
\* C19: the sessions of the collection have pairwise distinct ids after any
\* sequence of startSession, endSession and saveSession calls, calls within
\* one clock millisecond and the sessions loaded or seeded at initialization
\* included.
C19_DistinctIds ==
    \A j, k \in DOMAIN sessions : j # k => sessions[j].id # sessions[k].id

\* a complete record carries the quality of its analysis' confidence
C20_QualityOfConfidence(s) ==
    s.status = "Complete"
        => /\ s.aiAnalysis # None
           /\ s.quality = determineQuality(s.aiAnalysis[1].confidence)

\* C20: determineQuality maps confidence to a tier by thresholds: >= 0.9
\* gives Excellent, >= 0.8 and < 0.9 gives Good, >= 0.6 and < 0.8 gives Fair,
\* anything lower gives Poor; and a completed session's quality is
\* determineQuality of its analysis' confidence, both where the pipeline
\* completes it and in the collection.
C20_QualityTiers ==
    /\ (call # None /\ call[1].fn = "determineQuality" /\ result # None)
          => LET confidence == call[1].arg
                 quality == result[1]
             IN  /\ confidence >= 90 => quality = "Excellent"
                 /\ (confidence >= 80 /\ confidence < 90) => quality = "Good"
                 /\ (confidence >= 60 /\ confidence < 80) => quality = "Fair"
                 /\ confidence < 60 => quality = "Poor"
    /\ (call # None /\ call[1].fn = "complete" /\ result # None)
          => C20_QualityOfConfidence(result[1])
    /\ \A k \in DOMAIN sessions : C20_QualityOfConfidence(sessions[k])

\* determineQuality has returned Fair for the confidence at its threshold
C20_Witness ==
    /\ call # None /\ call[1].fn = "determineQuality"
    /\ call[1].arg = 60
    /\ result = Some("Fair")

(***************************************************************************)
(* Claims about failures of the storage.                                   *)
(***************************************************************************)
\* the value by which an operation tells its caller that it failed
FailureIndicator ==
    returned' # None /\ returned'[1].tag \in {"false", "empty"}

\* C21: when the storage write of endSession, saveSession, a progress update
\* or deleteSession fails, the operation does not throw, reports the failure
\* through its return value (false or none) rather than reporting success,
\* and has still applied the change to the in-memory collection.  (A
\* progress update returns nothing to anyone; the three public operations
\* are the ones that return.)
C21_WriteFailureReported ==
    [][(/\ setItemThrows
        /\ \E i \in DOMAIN tasks :
              \/ EndSessionResume(i)
              \/ SaveSessionResume(i)
              \/ DeleteSessionResume(i) /\ tasks[i].pc = "del_write")
          => /\ FailureIndicator
             /\ \A i \in DOMAIN tasks :
                   /\ (EndSessionResume(i) \/ SaveSessionResume(i))
                         => tasks[i].sid \in Ids(sessions')
                   /\ DeleteSessionResume(i)
                         => Len(sessions') = Len(sessions) - 1]_vars


\* C22: unmounting the component while it is listening stops the speech
\* service and cancels the pending dismissal timer, as stop() does: once the
\* component is unmounted, no step delivers a speech result to its handler
\* and no dismissal timer of it fires.
C22_UnmountCancels ==
    [][(/\ Unmount => (~serviceIsListening' /\ timers' = {})
        /\ ~mounted => (delivered' = None /\ fired' = 0 /\ tipDetected' = <<>>))]_vars


\* C23: the collection is loaded from storage before any mutation is
\* applied: the step in which initializeStorage assigns the collection keeps
\* every session that endSession or saveSession put into it, and however
\* the calls of initializeStorage overlap, the collection is loaded once
\* and seeded at most once.
C23_LoadedBeforeMutation ==
    [][/\ \A i \in DOMAIN tasks :
             LoadSessions(i) => Ids(sessions) \subseteq Ids(sessions')
       /\ loaded' <= 1
       /\ seeded' <= 1]_vars

\* C24: the storage requests of different manager operations may interleave,
\* yet once all of them have completed the persisted list holds exactly the
\* real sessions of the in-memory collection, each with the status it has
\* in memory: no update is lost and no deleted session is restored.
C24_StoreMatchesCollection ==
    Quiescent =>
        {<<stored[k].id, stored[k].status>> : k \in DOMAIN stored}
          = {<<sessions[k].id, sessions[k].status>> :
                k \in {j \in DOMAIN sessions : sessions[j].isRealSession}}

\* the records of a list made in this run (the earlier ones were created
\* before the clock of the model started)
NewRecords(list) == {k \in DOMAIN list : list[k].createdAt >= 1}

\* endSession has returned to the recording screen, which now calls saveSession
ScreenSaves ==
    /\ history = <<"startSession", "endSession">>
    /\ \A i \in DOMAIN tasks : tasks[i].kind # "endSession"

\* C25: one recording as the recording screen drives it (startSession at the
\* start; at the stop endSession and, once it has returned, saveSession)
\* leaves exactly one new session record in the collection and in the store.
C25_OneRecordPerRecording ==
    [][/\ (ScreenSaves /\ \E d \in Durations : SaveSessionCall(d))
            => Cardinality(NewRecords(sessions')) = 1
       /\ (C3_Scenario /\ \E i \in DOMAIN tasks : SaveSessionResume(i))
            => Cardinality(NewRecords(stored')) = 1]_vars

\* C26: when the service's stopListening is called while an earlier
\* startListening still awaits availability or permission, then once both
\* have completed the service is not listening and no simulation timer is
\* running; and once a later startListening has completed, the service
\* delivers to the callbacks that call passed.  (The controller's
\* isListening tells which of the two it called last.)
C26_StopWinsOverPendingStart ==
    starting = <<>> =>
        /\ ~isListening => (~serviceIsListening /\ intervals = {})
        /\ (isListening /\ serviceIsListening) => options # None

\* C27: however many times the fallback to simulation is triggered, at most
\* one simulation interval timer is live at any time, and the controller's
\* stop (isRecording turning false) cancels every simulation timer that was
\* started.
C27_OneSimulationTimer ==
    [][/\ Cardinality(intervals') <= 1
       /\ (SetRecording /\ isRecording) => intervals' = {}]_vars

\* C28: the speech source is never live and synthetic at once: while a
\* simulation timer is running (a recognition error has switched the
\* service to simulation), no step starts a live recognizer again, neither
\* the native one nor a web one.
C28_NoRestartWhileSimulating ==
    [][intervals # {} =>
          /\ nativeActive' => nativeActive
          /\ {r.id : r \in recognizers'} \subseteq {r.id : r \in recognizers}]_vars

\* the sessions saveSession made: the ones a pipeline works on
Saved(list) == {k \in DOMAIN list : \E i \in Pipelines : tasks[i].sid = list[k].id}

\* C29: the status of a session only moves forward: a session of the
\* collection that is Complete or Failed has that status after every step
\* that keeps it in the collection; and
\* every session the pipeline of saveSession has set Complete has its
\* transcript and aiAnalysis set and all three processingSteps true.
C29_StatusMovesForward ==
    [][/\ \A k \in DOMAIN sessions :
            (/\ sessions[k].status \in {"Complete", "Failed"}
             /\ sessions[k].id \in Ids(sessions'))
               => \E j \in DOMAIN sessions' :
                     /\ sessions'[j].id = sessions[k].id
                     /\ sessions'[j].status = sessions[k].status
       /\ \A k \in Saved(sessions') :
            sessions'[k].status = "Complete"
               => /\ sessions'[k].transcript # ""
                  /\ sessions'[k].aiAnalysis # None
                  /\ sessions'[k].processingSteps = Steps(TRUE, TRUE, TRUE)]_vars

\* tip n is what analyzeSpeech returns for one of its own trigger phrases
\* given alone
Returnable(n) ==
    \E k \in DOMAIN LEGAL_TIPS[n].trigger :
        analyzeSpeech(LEGAL_TIPS[n].trigger[k]) = Some(LEGAL_TIPS[n])

\* C30: every tip of LEGAL_TIPS can be returned by analyzeSpeech: whenever
\* analyzeSpeech, given a trigger phrase of a tip alone, has returned
\* another tip, that tip has a trigger phrase for which it is returned (no
\* tip is fully shadowed by the tips declared before it).
C30_EveryTipReturnable ==
    Analyzed =>
        \A n \in DOMAIN LEGAL_TIPS :
            (/\ \E k \in DOMAIN LEGAL_TIPS[n].trigger :
                    call[1].arg = LEGAL_TIPS[n].trigger[k]
             /\ result[1] # Some(LEGAL_TIPS[n]))
                => Returnable(n)

=============================================================================
